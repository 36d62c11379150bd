--------------------------- MODULE ReportExports ---------------------------
(***************************************************************************)
(* Exports of completed snapshots.  The row of an export is in the         *)
(* database and its file in private storage, and no transaction spans the  *)
(* two.  An attempt claims the row under a fresh generation token, renders *)
(* and stores its file under a key made of that token outside any          *)
(* transaction, and publishes the file only if the row is still RUNNING    *)
(* under its token.  Recovery, failures and expiry leave keys behind for a *)
(* sweeper to delete.  Ages are not counted: a row may be recovered, and   *)
(* its retention may end, at any time.                                     *)
(*                                                                         *)
(* A token stands for its attempt, its message and its storage key.  The   *)
(* time limit of a task is shorter than the grace period of recovery, so   *)
(* a worker is normally dead when its row is recovered; Overtake is the    *)
(* recovery of one that is not, which the token is there for.              *)
(***************************************************************************)
EXTENDS ReportSnapshots, FiniteSets

CONSTANTS
  Exports,        \* idempotency keys of requests
  Tokens,         \* generation tokens; every claim draws a fresh one
  NoToken,
  ExportRetries,  \* max_retries of generate_report_export
  ExportMessages, \* bound on the messages of one export when another is sent
  SourceOf        \* [Exports -> Snapshots]

ASSUME NoTokenIsNone == NoToken \notin Tokens
ASSUME SourceOfExport == SourceOf \in [Exports -> Snapshots]
ASSUME ExportBounds == ExportRetries \in Nat /\ ExportMessages \in Nat /\ Exports # {}

VARIABLES
  export,       \* [Exports -> ExportRow]
  exportQueue,  \* [Exports \X (0..ExportRetries) -> Nat], messages by retries made
  attempt,      \* [Tokens -> AttemptState]
  files,        \* the objects in private storage
  sweep,        \* what the running cleanup_failed_exports read of one row
  overtaken     \* attempts that ran on after their row was taken from them (no such
                \* record in the code)

exportVars == <<export, exportQueue, attempt, files, sweep, overtaken>>

\* storage: the attempt whose file is published; past: expires_at is over
ExportRow == [status : {"ABSENT", "QUEUED", "RUNNING", "COMPLETED", "FAILED", "EXPIRED"},
              token : Tokens \cup {NoToken}, storage : Tokens \cup {NoToken},
              cleanup : SUBSET Tokens, past : BOOLEAN]

\* keyed: the attempt has chosen its storage key, so that an error deletes it
AttemptState == [step : {"unused", "rendering", "saved", "refused", "error", "deleted",
                         "raised", "over"},
                 export : Exports, tries : 0..ExportRetries, keyed : BOOLEAN]

NoSweep == [active |-> FALSE, keys |-> {}, storage |-> NoToken]

ExportTypeOK ==
  /\ export \in [Exports -> ExportRow]
  /\ exportQueue \in [Exports \X (0..ExportRetries) -> Nat]
  /\ attempt \in [Tokens -> AttemptState]
  /\ files \subseteq Tokens /\ overtaken \subseteq Tokens
  /\ sweep \in [active : BOOLEAN, keys : SUBSET Tokens, storage : Tokens \cup {NoToken}]

ExportInit ==
  /\ export = [e \in Exports |-> [status |-> "ABSENT", token |-> NoToken, storage |-> NoToken,
                                  cleanup |-> {}, past |-> FALSE]]
  /\ exportQueue = [m \in Exports \X (0..ExportRetries) |-> 0]
  /\ attempt \in [Tokens -> [step : {"unused"}, export : {CHOOSE e \in Exports : TRUE},
                             tries : {0}, keyed : {FALSE}]]
  /\ files = {} /\ overtaken = {}
  /\ sweep = NoSweep

TerminalExport == {"COMPLETED", "FAILED", "EXPIRED"}
Working(t) == attempt[t].step \notin {"unused", "over"}
\* the row is RUNNING under the attempt's own token
Mine(t) == export[attempt[t].export].status = "RUNNING" /\ export[attempt[t].export].token = t
\* the row is RUNNING under some token and its worker may still be at work
Live(e) == export[e].status = "RUNNING" /\ Working(export[e].token)

\* a plausible bug: a row without a token adds nothing as a key
WithAnyKey(keys, t) == keys \cup {t}

\* _with_cleanup_key
WithKey(keys, t) == IF t = NoToken THEN keys ELSE keys \cup {t}
SendExport(e, n) == exportQueue' = [exportQueue EXCEPT ![<<e, n>>] = @ + 1]
At(t, step) == attempt' = [attempt EXCEPT ![t].step = step]
Over(t) == At(t, "over")

-----------------------------------------------------------------------------
(* Requests *)

\* request_export: a completed snapshot, and a new row or the QUEUED one of the same key
RequestExport(e) ==
  /\ Completed(SourceOf[e])
  /\ export[e].status \in {"ABSENT", "QUEUED"}
  /\ exportQueue[<<e, 0>>] < ExportMessages
  /\ export' = [export EXCEPT ![e].status = "QUEUED"]
  /\ \/ SendExport(e, 0) /\ UNCHANGED faults
     \/ Fault /\ UNCHANGED exportQueue
  /\ UNCHANGED <<attempt, files, sweep, overtaken>>

\* the retention period of the row ends
RetentionEnds(e) ==
  /\ export[e].status # "ABSENT" /\ ~export[e].past
  /\ export' = [export EXCEPT ![e].past = TRUE]
  /\ UNCHANGED <<exportQueue, attempt, files, sweep, overtaken, faults>>

-----------------------------------------------------------------------------
(* generate_report_export and execute_export *)

Receive(e, n) == /\ exportQueue[<<e, n>>] > 0
                 /\ exportQueue' = [exportQueue EXCEPT ![<<e, n>>] = @ - 1]

\* a RUNNING row belongs to another delivery and a terminal one to nobody; a row whose
\* retention is over fails, leaving the key of the last attempt to the sweeper
ReceiveNothingToDo(e, n) ==
  /\ Receive(e, n)
  /\ \/ /\ export[e].status \in TerminalExport \cup {"RUNNING"}
        /\ UNCHANGED export
     \/ /\ export[e].status = "QUEUED" /\ export[e].past
        /\ export' = [export EXCEPT ![e].status = "FAILED",
                                    ![e].cleanup = WithKey(@, export[e].token)]
  /\ UNCHANGED <<attempt, files, sweep, overtaken, faults>>

\* tokens are random: which unused one is drawn makes no difference
Unused == {t \in Tokens : attempt[t].step = "unused"}

ClaimExport(e, n) ==
  LET t == CHOOSE u \in Unused : TRUE IN
  /\ Receive(e, n)
  /\ Unused # {}
  /\ export[e].status = "QUEUED" /\ ~export[e].past
  /\ export' = [export EXCEPT ![e].status = "RUNNING", ![e].token = t,
                              ![e].cleanup = WithKey(@, export[e].token)]
  /\ attempt' = [attempt EXCEPT ![t] = [step |-> "rendering", export |-> e, tries |-> n,
                                        keyed |-> FALSE]]
  /\ UNCHANGED <<files, sweep, overtaken, faults>>

\* storage.save, outside any transaction; it may fail with or without leaving an object
SaveFile(t) ==
  /\ attempt[t].step = "rendering"
  /\ attempt' = [attempt EXCEPT ![t].step = "saved", ![t].keyed = TRUE]
  /\ files' = files \cup {t}
  /\ UNCHANGED <<export, exportQueue, sweep, overtaken, faults>>

\* rendering fails before there is a key; saving or reading back fails after
AttemptErrs(t) ==
  /\ attempt[t].step \in {"rendering", "saved"}
  /\ \/ At(t, "error") /\ UNCHANGED files
     \/ /\ attempt' = [attempt EXCEPT ![t].step = "error", ![t].keyed = TRUE]
        /\ \E left \in {{}, {t}} : files' = files \cup left
  /\ Fault
  /\ UNCHANGED <<export, exportQueue, sweep, overtaken>>

\* a plausible bug: the token of the row is enough, whatever its status
PublishUnfenced(t) ==
  LET e == attempt[t].export IN
  /\ attempt[t].step = "saved"
  /\ IF export[e].token = t /\ ~export[e].past
     THEN /\ export' = [export EXCEPT ![e].status = "COMPLETED", ![e].token = NoToken,
                                      ![e].storage = t, ![e].cleanup = @ \ {t}]
          /\ Over(t)
     ELSE At(t, "refused") /\ UNCHANGED export
  /\ UNCHANGED <<exportQueue, files, sweep, overtaken, faults>>

\* the publishing transaction: the row must be RUNNING under this token
PublishFile(t) ==
  LET e == attempt[t].export IN
  /\ attempt[t].step = "saved"
  /\ \/ /\ Mine(t) /\ ~export[e].past
        /\ export' = [export EXCEPT ![e].status = "COMPLETED", ![e].token = NoToken,
                                    ![e].storage = t, ![e].cleanup = @ \ {t}]
        /\ Over(t)
     \/ /\ Mine(t) /\ export[e].past
        /\ export' = [export EXCEPT ![e].status = "FAILED", ![e].cleanup = @ \cup {t}]
        /\ At(t, "refused")
     \/ /\ ~Mine(t)
        /\ At(t, "refused") /\ UNCHANGED export
  /\ UNCHANGED <<exportQueue, files, sweep, overtaken, faults>>

\* _delete_export_key: a storage error is swallowed
Delete(t) == \/ files' = files \ {t} /\ UNCHANGED faults
             \/ Fault /\ UNCHANGED files

\* an attempt that was not published deletes its own object, and the task returns
DropRefused(t) ==
  /\ attempt[t].step = "refused"
  /\ Delete(t)
  /\ Over(t)
  /\ UNCHANGED <<export, exportQueue, sweep, overtaken>>

\* the except branch deletes the object first ...
DropAfterError(t) ==
  /\ attempt[t].step = "error"
  /\ IF attempt[t].keyed THEN Delete(t) ELSE UNCHANGED <<files, faults>>
  /\ At(t, "deleted")
  /\ UNCHANGED <<export, exportQueue, sweep, overtaken>>

\* ... and then gives the row back, with the key to be swept, if it is still its own
ReleaseRow(t) ==
  LET e == attempt[t].export IN
  /\ attempt[t].step = "deleted"
  /\ export' = IF ~Mine(t) THEN export
               ELSE [export EXCEPT ![e].status = "QUEUED",
                                   ![e].cleanup = IF attempt[t].keyed THEN @ \cup {t} ELSE @]
  /\ At(t, "raised")
  /\ UNCHANGED <<exportQueue, files, sweep, overtaken, faults>>

\* fail_export, with the token of the attempt that gave up
MayFail(e, by) == export[e].status \notin TerminalExport /\ export[e].token = by

Failed(row) == [row EXCEPT !.status = "FAILED", !.storage = NoToken,
                           !.cleanup = WithKey(@, row.token)]

\* the task sends its retry, or fails the export
RetryOrFail(t) ==
  LET e == attempt[t].export  n == attempt[t].tries IN
  /\ attempt[t].step = "raised"
  /\ IF n < ExportRetries
     THEN SendExport(e, n + 1) /\ UNCHANGED <<export, overtaken>>
     ELSE /\ export' = IF MayFail(e, t) THEN [export EXCEPT ![e] = Failed(@)] ELSE export
          /\ overtaken' = IF MayFail(e, t) /\ Live(e) THEN overtaken \cup {export[e].token}
                          ELSE overtaken
          /\ UNCHANGED exportQueue
  /\ Over(t)
  /\ UNCHANGED <<files, sweep, faults>>

\* an error in the claiming transaction carries no token: on the last retry fail_export
\* takes the row from whoever holds it
ClaimErrs(e, n) ==
  /\ exportQueue[<<e, n>>] > 0
  /\ export[e].status \notin TerminalExport
  /\ IF n < ExportRetries
     THEN /\ exportQueue' = [exportQueue EXCEPT ![<<e, n>>] = @ - 1, ![<<e, n + 1>>] = @ + 1]
          /\ UNCHANGED <<export, overtaken>>
     ELSE /\ Receive(e, n)
          /\ export' = [export EXCEPT ![e] = Failed(@)]
          /\ overtaken' = IF Live(e) THEN overtaken \cup {export[e].token} ELSE overtaken
  /\ Fault
  /\ UNCHANGED <<attempt, files, sweep>>

\* the message of a lost worker returns to the queue, that of a task killed by its time
\* limit is acknowledged; the row stays as it is
ExportWorkerLost(t) ==
  /\ Working(t)
  /\ SendExport(attempt[t].export, attempt[t].tries) \/ UNCHANGED exportQueue
  /\ Over(t)
  /\ Fault
  /\ UNCHANGED <<export, files, sweep, overtaken>>

-----------------------------------------------------------------------------
(* Beat: recovery, cleanup and expiry *)

Requeued(row) == [row EXCEPT !.status = "QUEUED",
                             !.cleanup = IF row.status = "RUNNING" THEN WithKey(@, row.token)
                                         ELSE @]

\* recover_exports: the grace period is longer than a task may run
RecoverExport(e) ==
  /\ export[e].status \in {"QUEUED", "RUNNING"} /\ ~Live(e)
  /\ exportQueue[<<e, 0>>] < ExportMessages
  /\ export' = [export EXCEPT ![e] = Requeued(@)]
  /\ \/ SendExport(e, 0) /\ UNCHANGED faults
     \/ Fault /\ UNCHANGED exportQueue
  /\ UNCHANGED <<attempt, files, sweep, overtaken>>

\* the same while the worker is still at it: a suspended machine, a limit not enforced
Overtake(e) ==
  /\ Live(e)
  /\ exportQueue[<<e, 0>>] < ExportMessages
  /\ export' = [export EXCEPT ![e] = Requeued(@)]
  /\ overtaken' = overtaken \cup {export[e].token}
  /\ SendExport(e, 0)
  /\ Fault
  /\ UNCHANGED <<attempt, files, sweep>>

\* cleanup_failed_exports reads a row without its lock
StartSweep(e) ==
  /\ ~sweep.active /\ export[e].cleanup # {}
  /\ sweep' = [active |-> TRUE, keys |-> export[e].cleanup, storage |-> export[e].storage]
  /\ UNCHANGED <<export, exportQueue, attempt, files, overtaken, faults>>

\* one key: never the published one; what was deleted is struck from the row's list
SweepKey(t) ==
  /\ sweep.active /\ t \in sweep.keys
  /\ sweep' = [sweep EXCEPT !.keys = @ \ {t}]
  /\ \/ t = sweep.storage /\ UNCHANGED <<export, files, faults>>
     \/ /\ t # sweep.storage
        /\ Delete(t)
        /\ export' = IF t \in files' THEN export
                     ELSE [e \in Exports |-> [export[e] EXCEPT !.cleanup = @ \ {t}]]
  /\ UNCHANGED <<exportQueue, attempt, overtaken>>

EndSweep ==
  /\ sweep.active /\ sweep.keys = {}
  /\ sweep' = NoSweep
  /\ UNCHANGED <<export, exportQueue, attempt, files, overtaken, faults>>

\* expire_exports, the row
ExpireExport(e) ==
  /\ export[e].status = "COMPLETED" /\ export[e].past
  /\ export' = [export EXCEPT ![e].status = "EXPIRED"]
  /\ UNCHANGED <<exportQueue, attempt, files, sweep, overtaken, faults>>

\* a plausible bug: the file is forgotten although it could not be deleted
DeleteExpiredOnce(e) ==
  /\ export[e].status = "EXPIRED" /\ export[e].storage # NoToken
  /\ Delete(export[e].storage)
  /\ export' = [export EXCEPT ![e].storage = NoToken]
  /\ UNCHANGED <<exportQueue, attempt, sweep, overtaken>>

\* expire_exports, the file: tried again until it is gone
DeleteExpired(e) ==
  /\ export[e].status = "EXPIRED" /\ export[e].storage # NoToken
  /\ Delete(export[e].storage)
  /\ export' = IF export[e].storage \in files' THEN export
               ELSE [export EXCEPT ![e].storage = NoToken]
  /\ UNCHANGED <<exportQueue, attempt, sweep, overtaken>>

-----------------------------------------------------------------------------
AttemptStep(t) == \/ SaveFile(t) \/ PublishFile(t) \/ DropRefused(t) \/ DropAfterError(t)
                  \/ ReleaseRow(t) \/ RetryOrFail(t)
Deliver(e, n) == ReceiveNothingToDo(e, n) \/ ClaimExport(e, n)
ExportWorkers == \/ \E e \in Exports, n \in 0..ExportRetries : Deliver(e, n)
                 \/ \E t \in Tokens : AttemptStep(t)
Beat(e) == RecoverExport(e) \/ ExpireExport(e) \/ DeleteExpired(e)
Sweeper == (\E e \in Exports : StartSweep(e)) \/ (\E t \in Tokens : SweepKey(t)) \/ EndSweep

ExportNext ==
  \/ \E e \in Exports : RequestExport(e) \/ RetentionEnds(e) \/ Overtake(e) \/ Beat(e)
  \/ \E e \in Exports, n \in 0..ExportRetries : ClaimErrs(e, n)
  \/ \E t \in Tokens : AttemptErrs(t) \/ ExportWorkerLost(t)
  \/ ExportWorkers \/ Sweeper

-----------------------------------------------------------------------------
Published(t) == /\ export[attempt[t].export].storage = t
                /\ export[attempt[t].export].status = "COMPLETED"

\* Rows and storage agree, whatever stale attempts, sweeps, failures and recoveries do
\* (exports.py:206, 274, 280, 574).  The object of a COMPLETED export is in storage; and no
\* object is forgotten: it is published, on its row's list for the sweeper, or under the
\* row's token, which the next claim, recovery or failure puts on that list.  The exception
\* are attempts that ran on after losing their row.
PublishedFileExists ==
  \A e \in Exports : export[e].status = "COMPLETED" => export[e].storage \in files
FilesAccounted ==
  \A t \in files \ overtaken :
    LET row == export[attempt[t].export] IN
    \/ row.storage = t \/ t \in row.cleanup
    \/ row.token = t /\ row.status \in {"QUEUED", "RUNNING"}
StorageAgrees == PublishedFileExists /\ FilesAccounted

\* Every requested export ends, through lost messages, crashes and errors: recovery sends
\* whatever is left over, and retries are bounded (exports.py:438, tasks.py:42).
ExportEnds ==
  \A e \in Exports : export[e].status # "ABSENT" ~> export[e].status \in TerminalExport

\* Storage is cleaned up: what is stored ends up published or deleted, and expired files
\* go (exports.py:494, 569).
StorageSettles ==
  \A t \in Tokens : t \in files ~> t \notin files \/ Published(t) \/ t \in overtaken

\* the pool of workers goes on while it has something to do, and beat keeps its schedule
ExportFairness ==
  /\ WF_exportVars(ExportWorkers)
  /\ WF_exportVars(\E e \in Exports : Beat(e))
  /\ WF_exportVars(Sweeper)
=============================================================================
