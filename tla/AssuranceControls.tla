-------------------------- MODULE AssuranceControls --------------------------
(***************************************************************************)
(* Physical verification, the evidence uploaded for it and the ledger of   *)
(* assurance findings, for one organization.  Evidence can be uploaded for *)
(* a verification only and a run is created for a completed campaign; what *)
(* the three do besides is independent, so a workload says which of them   *)
(* is exercised in a behaviour, and how far.                               *)
(***************************************************************************)
EXTENDS PhysicalVerification, EvidenceUploads, FindingLedger

CONSTANT
  Workloads     \* [rows, scopes, observations, subjects, reviewed : sets of what occurs,
                \*  completed : campaigns that are over before, uploads, runs : sets]

ASSUME WorkloadsAssumption ==
  \A w \in Workloads : w.rows \subseteq RegisterRows /\ w.scopes \subseteq Scopes

VARIABLE workload

vars == <<verificationVars, evidenceVars, ledgerVars, workload>>

Init ==
  /\ workload \in Workloads
  /\ VerificationInit(workload.rows, workload.scopes, workload.completed)
  /\ EvidenceInit /\ LedgerInit

Verifying ==
  /\ VerificationNext(workload.scopes, workload.observations)
  /\ \A a \in Assets : register'[a] \in workload.rows
  /\ \A v \in Records :
       /\ v[2] \notin workload.subjects => UNCHANGED <<verification[v], exception[v]>>
       /\ \A t \in Raised(v) \ workload.reviewed : exception'[v][t] = exception[v][t]
  /\ UNCHANGED <<evidenceVars, ledgerVars>>

Uploading ==
  /\ EvidenceNext
  /\ \A u \in Uploads : request[u] = "none" /\ request'[u] # "none"
       => u \in workload.uploads /\ \E v \in Records : Recorded(v)
  /\ UNCHANGED <<verificationVars, ledgerVars>>

Assuring ==
  /\ LedgerNext
  /\ \A r \in Runs : publication[r].step = "absent" /\ publication'[r].step # "absent"
       => r \in workload.runs /\ \E c \in Campaigns : campaign[c].status = "COMPLETED"
  /\ UNCHANGED <<verificationVars, evidenceVars>>

Next == (Verifying \/ Uploading \/ Assuring) /\ UNCHANGED workload

Spec == Init /\ [][Next]_vars
=============================================================================
