---------------------------- MODULE FindingLedger ----------------------------
(***************************************************************************)
(* The findings of one organization, and the publication of assurance runs *)
(* into them.  A publication is one transaction: it records the candidates *)
(* of its run in the order of their identities, each in the active finding *)
(* of that identity or in a new one, and nobody sees a row of it before    *)
(* the commit.  Two runs may publish at once, and reviewers close findings *)
(* in between.                                                             *)
(*                                                                         *)
(* The findings of an identity are kept in the order of their insertion;   *)
(* the partial unique index lets only the last of them be active.          *)
(***************************************************************************)
EXTENDS Naturals, Sequences, SequencesExt, FiniteSetsExt

CONSTANTS
  Runs,             \* numbers, in the order of (started_at, pk)
  Identities,       \* numbers, in the order of (identity_key, finding_type)
  Detections,       \* sets of [run, identity, severity] that the rules may return
  PublicationRetries,
  MaxFindings,      \* bound on the findings of one identity
  NoRow

\* LOW to CRITICAL
SeverityRanks == 1..4

ActiveStatus == {"OPEN", "UNDER_REVIEW"}
TerminalStatus == {"RESOLVED", "ACCEPTED", "REJECTED"}

Finding == [status : ActiveStatus \cup TerminalStatus, severity : SeverityRanks, count : Nat,
            last : Runs, seen : SUBSET Runs]

ASSUME LedgerAssumption ==
  /\ Runs \subseteq Nat /\ Identities \subseteq Nat \ {0}
  /\ Detections \subseteq SUBSET [run : Runs, identity : Identities, severity : SeverityRanks]
  /\ PublicationRetries \in Nat /\ MaxFindings \in Nat
  /\ NoRow \notin Finding

VARIABLES
  detected,         \* what the rules returned: a member of Detections
  ledger,           \* [Identities -> Seq(Finding)]
  draft,            \* [Runs -> [Identities -> a row not yet committed, or NoRow]]
  publication       \* [Runs -> [step, identity, retries]]

ledgerVars == <<detected, ledger, draft, publication>>

Steps == {"absent", "due", "reading", "inserting", "rereading", "COMPLETED", "FAILED"}

NoDraft == [i \in Identities |-> NoRow]

LedgerInit ==
  /\ detected \in Detections
  /\ ledger = [i \in Identities |-> <<>>]
  /\ draft = [r \in Runs |-> NoDraft]
  /\ publication = [r \in Runs |-> [step |-> "absent", identity |-> 0, retries |-> 0]]

-----------------------------------------------------------------------------
(* Candidates *)

\* _merge_candidates: one candidate of an identity, with the highest severity
Severities(r, i) == {d.severity : d \in {x \in detected : x.run = r /\ x.identity = i}}
Candidates(r) == {i \in Identities : Severities(r, i) # {}}
MergedSeverity(r, i) == Max(Severities(r, i))

\* the candidates are recorded in the order of (identity_key, finding_type)
After(r, i) == {j \in Candidates(r) : j > i}
Current(r) == Min(After(r, publication[r].identity))

-----------------------------------------------------------------------------
(* Findings *)

HasActive(i) == ledger[i] # <<>> /\ Last(ledger[i]).status \in ActiveStatus

\* another transaction holds the active finding of an identity, or inserts one
HeldBeside(r, i) == \E q \in Runs \ {r} : draft[q][i] # NoRow

NewFinding(r, i) ==
  [status |-> "OPEN", severity |-> MergedSeverity(r, i), count |-> 1, last |-> r, seen |-> {r}]

\* a plausible bug: the run that publishes is taken for the latest
JoinedAsLast(f, r, i) ==
  [f EXCEPT !.count = @ + (IF r \in f.seen THEN 0 ELSE 1),
            !.seen = @ \cup {r},
            !.last = r,
            !.severity = Max({@, MergedSeverity(r, i)})]

\* _record_candidate, when there is an active finding
Joined(f, r, i) ==
  [f EXCEPT !.count = @ + (IF r \in f.seen THEN 0 ELSE 1),
            !.seen = @ \cup {r},
            !.last = IF r >= @ THEN r ELSE @,
            !.severity = Max({@, MergedSeverity(r, i)})]

-----------------------------------------------------------------------------
(* Publication *)

\* create_run of a completed campaign, or create_scheduled_run
CreateRun(r) ==
  /\ publication[r].step = "absent"
  /\ publication' = [publication EXCEPT ![r].step = "due"]
  /\ UNCHANGED <<detected, ledger, draft>>

Writes(r, i, row) ==
  /\ draft' = [draft EXCEPT ![r][i] = row]
  /\ publication' = [publication EXCEPT ![r].step = "reading", ![r].identity = i]
  /\ UNCHANGED <<detected, ledger>>

\* the transaction is rolled back; the run tries again or fails
GiveBack(r) ==
  /\ draft' = [draft EXCEPT ![r] = NoDraft]
  /\ publication' = [publication EXCEPT ![r] =
       IF @.retries < PublicationRetries
       THEN [step |-> "due", identity |-> 0, retries |-> @.retries + 1]
       ELSE [step |-> "FAILED", identity |-> 0, retries |-> @.retries]]
  /\ UNCHANGED <<detected, ledger>>

BeginPublish(r) ==
  /\ publication[r].step = "due"
  /\ publication' = [publication EXCEPT ![r].step = "reading"]
  /\ UNCHANGED <<detected, ledger, draft>>

\* SELECT ... FOR UPDATE waits for whoever holds the row and then looks again
ReadFinding(r) ==
  LET i == Current(r) IN
  /\ publication[r].step = "reading" /\ After(r, publication[r].identity) # {}
  /\ \/ /\ HasActive(i) /\ ~HeldBeside(r, i)
        /\ Writes(r, i, Joined(Last(ledger[i]), r, i))
     \/ /\ ~HasActive(i)
        /\ publication' = [publication EXCEPT ![r].step = "inserting"]
        /\ UNCHANGED <<detected, ledger, draft>>

\* the unique index makes the insertion wait for another one of the identity; when there is
\* an active finding by then it is read again
InsertFinding(r) ==
  LET i == Current(r) IN
  /\ publication[r].step = "inserting"
  /\ \/ /\ ~HasActive(i) /\ ~HeldBeside(r, i)
        /\ Len(ledger[i]) < MaxFindings
        /\ Writes(r, i, NewFinding(r, i))
     \/ /\ HasActive(i)
        /\ publication' = [publication EXCEPT ![r].step = "rereading"]
        /\ UNCHANGED <<detected, ledger, draft>>

\* a plausible bug: a finding closed before the second read takes the detection with it
RereadOrPass(r) ==
  LET i == Current(r) IN
  /\ publication[r].step = "rereading"
  /\ \/ /\ HasActive(i) /\ ~HeldBeside(r, i)
        /\ Writes(r, i, Joined(Last(ledger[i]), r, i))
     \/ ~HasActive(i) /\ Writes(r, i, NoRow)

\* the second read; RetryPublication when a reviewer has closed the finding meanwhile
RereadFinding(r) ==
  LET i == Current(r) IN
  /\ publication[r].step = "rereading"
  /\ \/ /\ HasActive(i) /\ ~HeldBeside(r, i)
        /\ Writes(r, i, Joined(Last(ledger[i]), r, i))
     \/ ~HasActive(i) /\ GiveBack(r)

CommitPublication(r) ==
  /\ publication[r].step = "reading" /\ After(r, publication[r].identity) = {}
  /\ ledger' = [i \in Identities |->
       IF draft[r][i] = NoRow THEN ledger[i]
       ELSE IF HasActive(i) THEN [ledger[i] EXCEPT ![Len(ledger[i])] = draft[r][i]]
       ELSE Append(ledger[i], draft[r][i])]
  /\ draft' = [draft EXCEPT ![r] = NoDraft]
  /\ publication' = [publication EXCEPT ![r].step = "COMPLETED"]
  /\ UNCHANGED detected

\* the worker or its connection is lost, or the database aborts the transaction
PublicationFails(r) ==
  /\ publication[r].step \in {"reading", "inserting", "rereading"}
  /\ GiveBack(r)

-----------------------------------------------------------------------------
(* Review: each service locks the row, and waits for a publication that holds it *)

TransitionFinding(i, from, to) ==
  /\ HasActive(i) /\ Last(ledger[i]).status = from
  /\ \A r \in Runs : draft[r][i] = NoRow
  /\ ledger' = [ledger EXCEPT ![i][Len(ledger[i])].status = to]
  /\ UNCHANGED <<detected, draft, publication>>

ReviewFinding(i) == TransitionFinding(i, "OPEN", "UNDER_REVIEW")
CloseFinding(i) == \E to \in TerminalStatus : TransitionFinding(i, "UNDER_REVIEW", to)

LedgerNext ==
  \/ \E r \in Runs :
       \/ CreateRun(r) \/ BeginPublish(r) \/ ReadFinding(r) \/ InsertFinding(r)
       \/ RereadFinding(r) \/ CommitPublication(r) \/ PublicationFails(r)
  \/ \E i \in Identities : ReviewFinding(i) \/ CloseFinding(i)

LedgerSpec == LedgerInit /\ [][LedgerNext]_ledgerVars

-----------------------------------------------------------------------------
\* The columns of a finding agree with its occurrences, in whatever order runs publish: how
\* many there are, which run is the latest, and the highest severity (runs.py:321-331).
LedgerAgrees ==
  \A i \in Identities : \A k \in DOMAIN ledger[i] :
    LET f == ledger[i][k] IN
    /\ f.count = Cardinality(f.seen)
    /\ f.last = Max(f.seen)
    /\ f.severity = Max({MergedSeverity(r, i) : r \in f.seen})

\* A completed run has recorded each of its candidates, once, and a run that is not has
\* recorded nothing, whatever other runs and reviewers did meanwhile (runs.py:290-307).
DetectionsRecorded ==
  \A r \in Runs, i \in Identities :
    Cardinality({k \in DOMAIN ledger[i] : r \in ledger[i][k].seen}) =
      IF publication[r].step = "COMPLETED" /\ i \in Candidates(r) THEN 1 ELSE 0
=============================================================================
