--------------------------- MODULE EvidenceUploads ---------------------------
(***************************************************************************)
(* Uploaded evidence of physical verifications.  The request commits a     *)
(* PENDING row, writes the file to private storage, reads it back and      *)
(* commits VERIFIED; a task that beat starts every fifteen minutes cleans  *)
(* up rows that are PENDING for half an hour.  Storage takes part in no    *)
(* transaction and either side may stop between two steps.                 *)
(***************************************************************************)
EXTENDS Naturals, FiniteSets, FiniteSetsExt

CONSTANTS
  Uploads,          \* numbers, in the order of creation
  SweepLimit,       \* rows that one cleanup task looks at (100 in the code)
  MaxUploadFaults

ASSUME UploadsAssumption == Uploads \subseteq Nat /\ SweepLimit \in Nat \ {0}

VARIABLES
  evidence,         \* [Uploads -> [status, referenced]]: referenced is a NOTE, or has an
                    \* external reference
  object,           \* [Uploads -> what storage holds under the key of the row]
  request,          \* [Uploads -> the next step of the request that uploads it]
  age,              \* [Uploads -> {"fresh", "stale", "overtaken"}]: overtaken became stale
                    \* while its request was running
  sweep,            \* the rows that the running cleanup task has still to visit, oldest first
  uploadFaults

evidenceVars == <<evidence, object, request, age, sweep, uploadFaults>>

Running == {"saving", "reading", "publishing", "discarding", "failing"}
Live(u) == request[u] \in Running

EvidenceInit ==
  /\ evidence = [u \in Uploads |-> [status |-> "ABSENT", referenced |-> FALSE]]
  /\ object = [u \in Uploads |-> "none"]
  /\ request = [u \in Uploads |-> "none"]
  /\ age = [u \in Uploads |-> "fresh"]
  /\ sweep = {}
  /\ uploadFaults = 0

Goes(u, step) == request' = [request EXCEPT ![u] = step]
SetIntegrity(u, status) == evidence' = [evidence EXCEPT ![u].status = status]
Stored(u, what) == object' = [object EXCEPT ![u] = what]
UploadFault == uploadFaults < MaxUploadFaults /\ uploadFaults' = uploadFaults + 1

-----------------------------------------------------------------------------
(* create_evidence *)

StartUpload(u, referenced) ==
  /\ request[u] = "none"
  /\ \A w \in Uploads : w < u => request[w] # "none"
  /\ evidence' = [evidence EXCEPT ![u] = [status |-> "PENDING", referenced |-> referenced]]
  /\ Goes(u, "saving")
  /\ UNCHANGED <<object, age, sweep, uploadFaults>>

SaveObject(u) ==
  /\ request[u] = "saving"
  /\ \E what \in {"partial", "whole"} : Stored(u, what)
  /\ Goes(u, "reading")
  /\ UNCHANGED <<evidence, age, sweep, uploadFaults>>

\* _verify_storage_object
VerifyObject(u) ==
  /\ request[u] = "reading"
  /\ Goes(u, IF object[u] = "whole" THEN "publishing" ELSE "discarding")
  /\ UNCHANGED <<evidence, object, age, sweep, uploadFaults>>

\* VerificationEvidence.save refuses the row that the cleanup task has failed
PublishEvidence(u) ==
  /\ request[u] = "publishing"
  /\ \/ /\ evidence[u].status = "PENDING"
        /\ SetIntegrity(u, "VERIFIED")
        /\ Goes(u, "over")
     \/ /\ evidence[u].status # "PENDING"
        /\ Goes(u, "discarding")
        /\ UNCHANGED evidence
  /\ UNCHANGED <<object, age, sweep, uploadFaults>>

\* storage or the database raises; a file that was being written may be there or not
UploadError(u) ==
  /\ UploadFault
  /\ \/ request[u] = "saving" /\ \E what \in {"none", "partial", "whole"} : Stored(u, what)
     \/ request[u] \in {"reading", "publishing"} /\ UNCHANGED object
  /\ Goes(u, "discarding")
  /\ UNCHANGED <<evidence, age, sweep>>

\* _delete_private_object, and the audit row alone when that fails
DiscardObject(u) ==
  /\ request[u] = "discarding"
  /\ \/ Stored(u, "none") /\ Goes(u, "failing") /\ UNCHANGED uploadFaults
     \/ UploadFault /\ Goes(u, "over") /\ UNCHANGED object
  /\ UNCHANGED <<evidence, age, sweep>>

\* verify_evidence_reference_present: a row that is no NOTE and has no reference may not
\* lose its key
MayLoseKey(u) == evidence[u].referenced

\* _fail_pending_evidence; a refused update raises and the row stays as it is
FailPending(u) ==
  /\ request[u] = "failing"
  /\ IF evidence[u].status = "PENDING" /\ MayLoseKey(u)
     THEN SetIntegrity(u, "FAILED") ELSE UNCHANGED evidence
  /\ Goes(u, "over")
  /\ UNCHANGED <<object, age, sweep, uploadFaults>>

\* the worker process is killed
RequestDies(u) ==
  /\ Live(u) /\ UploadFault
  /\ Goes(u, "over")
  /\ UNCHANGED <<evidence, object, age, sweep>>

-----------------------------------------------------------------------------
(* cleanup_stale_evidence_uploads *)

\* half an hour passes; a request that outlives it counts as a fault, because the server
\* kills a worker after two minutes
GrowStale(u) ==
  /\ request[u] # "none" /\ age[u] = "fresh"
  /\ IF Live(u)
     THEN UploadFault /\ age' = [age EXCEPT ![u] = "overtaken"]
     ELSE age' = [age EXCEPT ![u] = "stale"] /\ UNCHANGED uploadFaults
  /\ UNCHANGED <<evidence, object, request, sweep>>

StartSweep ==
  LET due == {u \in Uploads : evidence[u].status = "PENDING" /\ age[u] # "fresh"} IN
  /\ sweep = {} /\ due # {}
  /\ sweep' = {u \in due : Cardinality({w \in due : w < u}) < SweepLimit}
  /\ UNCHANGED <<evidence, object, request, age, uploadFaults>>

\* a plausible bug: the row is failed whether or not its file could be deleted
SweepRegardless ==
  LET u == Min(sweep) IN
  /\ sweep # {}
  /\ \/ evidence[u].status # "PENDING" /\ UNCHANGED <<evidence, object, uploadFaults>>
     \/ /\ evidence[u].status = "PENDING" /\ MayLoseKey(u)
        /\ SetIntegrity(u, "FAILED")
        /\ \/ Stored(u, "none") /\ UNCHANGED uploadFaults
           \/ UploadFault /\ UNCHANGED object
  /\ sweep' = sweep \ {u}
  /\ UNCHANGED <<request, age>>

\* one row in one transaction: skipped when it is not PENDING any more or its file cannot be
\* deleted; an update that is refused ends the task
SweepRow ==
  LET u == Min(sweep) IN
  /\ sweep # {}
  /\ \/ /\ evidence[u].status # "PENDING"
        /\ sweep' = sweep \ {u}
        /\ UNCHANGED <<evidence, object, uploadFaults>>
     \/ /\ evidence[u].status = "PENDING" /\ UploadFault
        /\ sweep' = sweep \ {u}
        /\ UNCHANGED <<evidence, object>>
     \/ /\ evidence[u].status = "PENDING" /\ MayLoseKey(u)
        /\ Stored(u, "none") /\ SetIntegrity(u, "FAILED")
        /\ sweep' = sweep \ {u}
        /\ UNCHANGED uploadFaults
     \/ /\ evidence[u].status = "PENDING" /\ ~MayLoseKey(u)
        /\ Stored(u, "none")
        /\ sweep' = {}
        /\ UNCHANGED <<evidence, uploadFaults>>
  /\ UNCHANGED <<request, age>>

\* the worker of the task is lost, with the file of its row deleted or not
SweepDies ==
  /\ sweep # {} /\ UploadFault
  /\ \/ UNCHANGED object
     \/ evidence[Min(sweep)].status = "PENDING" /\ Stored(Min(sweep), "none")
  /\ sweep' = {}
  /\ UNCHANGED <<evidence, request, age>>

-----------------------------------------------------------------------------
(* Retrieval *)

\* open_verified_evidence: bytes that differ or cannot be read
FindCorrupt(u) ==
  /\ evidence[u].status = "VERIFIED"
  /\ \/ object[u] # "whole" /\ UNCHANGED uploadFaults
     \/ object[u] = "whole" /\ UploadFault
  /\ SetIntegrity(u, "CORRUPT")
  /\ UNCHANGED <<object, request, age, sweep>>

\* stored bytes change
Decay(u) ==
  /\ object[u] = "whole" /\ evidence[u].status = "VERIFIED" /\ UploadFault
  /\ Stored(u, "decayed")
  /\ UNCHANGED <<evidence, request, age, sweep>>

EvidenceNext ==
  \/ \E u \in Uploads :
       \/ \E referenced \in BOOLEAN : StartUpload(u, referenced)
       \/ SaveObject(u) \/ VerifyObject(u) \/ PublishEvidence(u) \/ UploadError(u)
       \/ DiscardObject(u) \/ FailPending(u) \/ RequestDies(u)
       \/ GrowStale(u) \/ FindCorrupt(u) \/ Decay(u)
  \/ StartSweep \/ SweepRow \/ SweepDies

\* a request goes on until it ends, and the clock and beat go on
EvidenceFairness ==
  /\ \A u \in Uploads :
       /\ WF_evidenceVars(SaveObject(u) \/ VerifyObject(u) \/ PublishEvidence(u)
                          \/ DiscardObject(u) \/ FailPending(u))
       /\ WF_evidenceVars(GrowStale(u))
  /\ WF_evidenceVars(StartSweep) /\ WF_evidenceVars(SweepRow)

EvidenceSpec == EvidenceInit /\ [][EvidenceNext]_evidenceVars /\ EvidenceFairness

-----------------------------------------------------------------------------
\* Unless the cleanup task overtakes a running request: VERIFIED evidence has its whole file
\* until storage itself loses it, and no file is left that neither a row nor a running
\* request accounts for (services.py:927, 1511).
EvidenceAgrees ==
  \A u \in Uploads : age[u] # "overtaken" =>
    /\ evidence[u].status = "VERIFIED" => object[u] \in {"whole", "decayed"}
    /\ object[u] # "none" => evidence[u].status \in {"PENDING", "VERIFIED", "CORRUPT"} \/ Live(u)

\* Failed and abandoned uploads are marked failed by the cleanup task in the end
\* (services.py:1426, 1512).
UploadsSettle ==
  \A u \in Uploads : evidence[u].status = "PENDING" ~> evidence[u].status # "PENDING"
=============================================================================
