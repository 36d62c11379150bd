---------------------- MODULE AssuranceControlsProofs ----------------------
(***************************************************************************)
(* Proofs about AssuranceControls, for any number of campaigns, assets,    *)
(* items, uploads, runs and identities, and for any workload: first the    *)
(* evidence uploads, then the ledger of findings, each under its own       *)
(* specification, then their composition with physical verification.       *)
(***************************************************************************)
EXTENDS AssuranceControls, FiniteSetTheorems, OrderLemmas, TLAPS

-----------------------------------------------------------------------------
(* Evidence uploads: the inductive invariant *)

EvidenceTyped ==
  /\ evidence \in [Uploads -> [status : {"ABSENT", "PENDING", "VERIFIED", "FAILED", "CORRUPT"},
                               referenced : BOOLEAN]]
  /\ object \in [Uploads -> {"none", "partial", "whole", "decayed"}]
  /\ request \in [Uploads -> {"none", "over"} \cup Running]
  /\ age \in [Uploads -> {"fresh", "stale", "overtaken"}]
  /\ sweep \subseteq Uploads

\* What holds of an upload whose request the cleanup task did not overtake: while it runs
\* its row is PENDING and nobody else touches its file, and the file is whole before the row
\* is published.
UploadConsistent(u) ==
  /\ request[u] = "none" => evidence[u].status = "ABSENT" /\ object[u] = "none"
  /\ Live(u) => evidence[u].status = "PENDING" /\ age[u] = "fresh"
  /\ request[u] = "publishing" => object[u] = "whole"
  /\ request[u] = "failing" => object[u] = "none"
  /\ evidence[u].status = "VERIFIED" => object[u] \in {"whole", "decayed"}
  /\ object[u] # "none" => evidence[u].status \in {"PENDING", "VERIFIED", "CORRUPT"}

\* The cleanup task holds no upload that is less than half an hour old, and such an upload
\* has begun.
SweepIsStale == \A u \in Uploads : u \in sweep => age[u] # "fresh"
AgedHasBegun == \A u \in Uploads : request[u] = "none" => age[u] = "fresh"

EvidenceInv ==
  /\ EvidenceTyped /\ SweepIsStale /\ AgedHasBegun
  /\ \A u \in Uploads : age[u] # "overtaken" => UploadConsistent(u)

-----------------------------------------------------------------------------
(* The oldest row of a cleanup *)

LEMMA OldestIsSwept ==
  ASSUME EvidenceInv, sweep # {}
  PROVE  Min(sweep) \in sweep /\ Min(sweep) \in Uploads /\ age[Min(sweep)] # "fresh"
<1>1. sweep \in SUBSET Nat /\ sweep \subseteq Uploads
  BY UploadsAssumption DEF EvidenceInv, EvidenceTyped
<1>2. Min(sweep) \in sweep
  BY <1>1, MinIsLeast
<1> QED
  BY <1>1, <1>2 DEF EvidenceInv, SweepIsStale

-----------------------------------------------------------------------------
(* The request *)

LEMMA InitEvidence == EvidenceInit => EvidenceInv
  BY DEF EvidenceInit, EvidenceInv, EvidenceTyped, SweepIsStale, AgedHasBegun,
         UploadConsistent, Live, Running

\* One upload moves, and the cleanup task and the clock do not.
RequestStep(u) ==
  \/ \E referenced \in BOOLEAN : StartUpload(u, referenced)
  \/ SaveObject(u) \/ VerifyObject(u) \/ PublishEvidence(u) \/ UploadError(u)
  \/ DiscardObject(u) \/ FailPending(u) \/ RequestDies(u)
  \/ FindCorrupt(u) \/ Decay(u)

\* Such a step concerns one row, its file and its request.
LEMMA RequestStepIsLocal ==
  ASSUME EvidenceTyped, NEW u \in Uploads, RequestStep(u)
  PROVE  /\ EvidenceTyped' /\ UNCHANGED <<age, sweep>>
         /\ \A w \in Uploads \ {u} : UNCHANGED <<evidence[w], object[w], request[w]>>
         /\ request[u] # "none" => request'[u] # "none"
<1> USE DEF EvidenceTyped, Running, Goes, SetIntegrity, Stored, UploadFault
<1>1. ASSUME NEW referenced \in BOOLEAN, StartUpload(u, referenced)
      PROVE  /\ EvidenceTyped' /\ UNCHANGED <<age, sweep>>
             /\ \A w \in Uploads \ {u} : UNCHANGED <<evidence[w], object[w], request[w]>>
             /\ request'[u] # "none"
  BY <1>1 DEF StartUpload
<1>2. CASE SaveObject(u) \/ VerifyObject(u)
  BY <1>2 DEF SaveObject, VerifyObject
<1>3. CASE PublishEvidence(u) \/ FailPending(u)
  BY <1>3 DEF PublishEvidence, FailPending
<1>4. CASE UploadError(u)
  BY <1>4, SMTT(30) DEF UploadError
<1>5. CASE DiscardObject(u)
  BY <1>5 DEF DiscardObject
<1>6. CASE RequestDies(u)
  BY <1>6 DEF RequestDies, Live
<1>7. CASE FindCorrupt(u) \/ Decay(u)
  BY <1>7 DEF FindCorrupt, Decay
<1> QED
  BY <1>1, <1>2, <1>3, <1>4, <1>5, <1>6, <1>7 DEF RequestStep

LEMMA RequestStepConsistent ==
  ASSUME EvidenceTyped, NEW u \in Uploads, UploadConsistent(u), RequestStep(u),
         AgedHasBegun
  PROVE  UploadConsistent(u)'
<1> USE DEF EvidenceTyped, Running, Live, Goes, SetIntegrity, Stored, UploadFault,
            UploadConsistent
<1>0. UNCHANGED age /\ EvidenceTyped'
  BY RequestStepIsLocal
<1>1. ASSUME NEW referenced \in BOOLEAN, StartUpload(u, referenced)
      PROVE  UploadConsistent(u)'
  BY <1>1 DEF StartUpload, AgedHasBegun
<1>2. CASE SaveObject(u)
  BY <1>2 DEF SaveObject
<1>3. CASE VerifyObject(u)
  BY <1>3 DEF VerifyObject
<1>4. CASE PublishEvidence(u)
  BY <1>4 DEF PublishEvidence
<1>5. CASE UploadError(u)
  BY <1>5 DEF UploadError
<1>6. CASE DiscardObject(u)
  BY <1>6 DEF DiscardObject
<1>7. CASE FailPending(u)
  BY <1>7 DEF FailPending
<1>8. CASE RequestDies(u)
  BY <1>8 DEF RequestDies
<1>9. CASE FindCorrupt(u) \/ Decay(u)
  BY <1>9 DEF FindCorrupt, Decay
<1> QED
  BY <1>1, <1>2, <1>3, <1>4, <1>5, <1>6, <1>7, <1>8, <1>9 DEF RequestStep

LEMMA RequestStepEvidence ==
  ASSUME EvidenceInv, NEW u \in Uploads, RequestStep(u)
  PROVE  EvidenceInv'
<1>1. EvidenceTyped' /\ SweepIsStale' /\ AgedHasBegun'
  BY RequestStepIsLocal DEF EvidenceInv, SweepIsStale, AgedHasBegun
<1>2. ASSUME NEW w \in Uploads, age'[w] # "overtaken" PROVE UploadConsistent(w)'
  <2>1. age[w] # "overtaken" /\ UploadConsistent(w)
    BY <1>2, RequestStepIsLocal DEF EvidenceInv
  <2>2. CASE w = u
    BY <2>1, <2>2, RequestStepConsistent DEF EvidenceInv
  <2>3. CASE w # u
    BY <2>1, <2>3, RequestStepIsLocal DEF EvidenceInv, UploadConsistent, Live
  <2> QED
    BY <2>2, <2>3
<1> QED
  BY <1>1, <1>2 DEF EvidenceInv

-----------------------------------------------------------------------------
(* The clock and the cleanup task *)

LEMMA GrowStaleEvidence ==
  ASSUME EvidenceInv, NEW u \in Uploads, GrowStale(u)
  PROVE  EvidenceInv'
<1>1. PICK older \in {"stale", "overtaken"} :
        /\ age' = [age EXCEPT ![u] = older]
        /\ Live(u) => older = "overtaken"
        /\ request[u] # "none" /\ age[u] = "fresh"
        /\ UNCHANGED <<evidence, object, request, sweep>>
  BY DEF GrowStale
<1>2. EvidenceTyped' /\ SweepIsStale' /\ AgedHasBegun'
  <2>1. age' \in [Uploads -> {"fresh", "stale", "overtaken"}]
    BY <1>1 DEF EvidenceInv, EvidenceTyped
  <2> QED
    BY <1>1, <2>1 DEF EvidenceInv, EvidenceTyped, SweepIsStale, AgedHasBegun
<1>3. ASSUME NEW w \in Uploads, age'[w] # "overtaken" PROVE UploadConsistent(w)'
  <2>1. age[w] # "overtaken" /\ (w = u => ~Live(u))
    BY <1>1, <1>3 DEF EvidenceInv, EvidenceTyped
  <2>2. w # u => age'[w] = age[w]
    BY <1>1 DEF EvidenceInv, EvidenceTyped
  <2>3. UploadConsistent(w)
    BY <2>1 DEF EvidenceInv
  <2> QED
    BY <1>1, <2>1, <2>2, <2>3 DEF UploadConsistent, Live
<1> QED
  BY <1>2, <1>3 DEF EvidenceInv

LEMMA StartSweepEvidence ==
  ASSUME EvidenceInv, StartSweep
  PROVE  EvidenceInv'
  BY DEF StartSweep, EvidenceInv, EvidenceTyped, SweepIsStale, AgedHasBegun, UploadConsistent,
         Live

\* A visit of the cleanup task, complete or cut short, changes one stale row at most, from
\* PENDING to FAILED, and its file goes first.
LEMMA SweepEvidence ==
  ASSUME EvidenceInv, SweepRow \/ SweepDies
  PROVE  EvidenceInv'
<1> DEFINE u == Min(sweep)
<1>1. /\ UNCHANGED <<request, age>> /\ sweep' \subseteq sweep /\ sweep # {}
      /\ \/ UNCHANGED <<evidence, object>>
         \/ /\ evidence[u].status = "PENDING" /\ object' = [object EXCEPT ![u] = "none"]
            /\ UNCHANGED evidence \/ evidence' = [evidence EXCEPT ![u].status = "FAILED"]
  BY DEF SweepRow, SweepDies, Stored, SetIntegrity
<1>2. u \in Uploads /\ age[u] # "fresh"
  BY <1>1, OldestIsSwept
<1> HIDE DEF u
<1>3. EvidenceTyped'
  <2>1. object' \in [Uploads -> {"none", "partial", "whole", "decayed"}]
    BY <1>1, <1>2 DEF EvidenceInv, EvidenceTyped
  <2>2. evidence' \in [Uploads -> [status : {"ABSENT", "PENDING", "VERIFIED", "FAILED", "CORRUPT"},
                                  referenced : BOOLEAN]]
    BY <1>1, <1>2 DEF EvidenceInv, EvidenceTyped
  <2> QED
    BY <1>1, <2>1, <2>2 DEF EvidenceInv, EvidenceTyped
<1>4. SweepIsStale' /\ AgedHasBegun'
  BY <1>1 DEF EvidenceInv, SweepIsStale, AgedHasBegun
<1>5. ASSUME NEW w \in Uploads, age'[w] # "overtaken" PROVE UploadConsistent(w)'
  <2>1. UploadConsistent(w) /\ age[w] # "overtaken"
    BY <1>1, <1>5 DEF EvidenceInv
  <2>2. CASE w = u
    <3>1. ~Live(u) /\ request[u] # "none"
      BY <1>2, <2>1, <2>2 DEF EvidenceInv, UploadConsistent, AgedHasBegun
    <3>2. request'[u] \notin Running /\ request'[u] # "none"
      BY <1>1, <3>1 DEF Live
    <3>3. CASE UNCHANGED <<evidence, object>>
      BY <1>1, <2>1, <2>2, <3>3 DEF UploadConsistent, Live
    <3>4. CASE /\ evidence[u].status = "PENDING" /\ object' = [object EXCEPT ![u] = "none"]
               /\ UNCHANGED evidence \/ evidence' = [evidence EXCEPT ![u].status = "FAILED"]
      <4>1. object'[u] = "none" /\ evidence'[u].status \in {"PENDING", "FAILED"}
        BY <1>2, <3>4 DEF EvidenceInv, EvidenceTyped
      <4> QED
        BY <2>2, <3>2, <4>1 DEF UploadConsistent, Live, Running
    <3> QED
      BY <1>1, <3>3, <3>4
  <2>3. CASE w # u
    BY <1>1, <1>2, <2>1, <2>3 DEF EvidenceInv, EvidenceTyped, UploadConsistent, Live
  <2> QED
    BY <2>2, <2>3
<1> QED
  BY <1>3, <1>4, <1>5 DEF EvidenceInv

-----------------------------------------------------------------------------
(* Theorem *)

LEMMA NextEvidence == EvidenceInv /\ [EvidenceNext]_evidenceVars => EvidenceInv'
<1> SUFFICES ASSUME EvidenceInv, [EvidenceNext]_evidenceVars PROVE EvidenceInv'
  OBVIOUS
<1>1. ASSUME NEW u \in Uploads, RequestStep(u) PROVE EvidenceInv'
  BY <1>1, RequestStepEvidence
<1>2. ASSUME NEW u \in Uploads, GrowStale(u) PROVE EvidenceInv'
  BY <1>2, GrowStaleEvidence
<1>3. CASE StartSweep
  BY <1>3, StartSweepEvidence
<1>4. CASE SweepRow \/ SweepDies
  BY <1>4, SweepEvidence
<1>5. CASE UNCHANGED evidenceVars
  BY <1>5 DEF evidenceVars, EvidenceInv, EvidenceTyped, SweepIsStale, AgedHasBegun,
              UploadConsistent, Live
<1> QED
  BY <1>1, <1>2, <1>3, <1>4, <1>5 DEF EvidenceNext, RequestStep

LEMMA EvidenceInvAgrees == EvidenceInv => EvidenceAgrees
BY DEF EvidenceInv, UploadConsistent, EvidenceAgrees

\* Evidence that was published has its file until storage loses it, and every file has a row
\* or a request, through every fault of a request and of the cleanup task
\* (services.py create_evidence, cleanup_stale_evidence_uploads).
THEOREM EvidenceCorrect == EvidenceSpec => []EvidenceAgrees
BY InitEvidence, NextEvidence, EvidenceInvAgrees, PTL DEF EvidenceSpec

-----------------------------------------------------------------------------
(* The ledger of findings: the inductive invariant *)

Greatest(m, S) == m \in S /\ \A x \in S : x <= m

\* The columns of one finding of an identity agree with its occurrences.
Agrees(f, i) ==
  /\ f.seen # {} /\ IsFiniteSet(f.seen) /\ f.count = Cardinality(f.seen)
  /\ \A r \in f.seen : i \in Candidates(r)
  /\ Greatest(f.last, f.seen)
  /\ Greatest(f.severity, {MergedSeverity(r, i) : r \in f.seen})

LedgerTyped ==
  /\ detected \in Detections
  /\ ledger \in [Identities -> Seq(Finding)]
  /\ draft \in [Runs -> [Identities -> Finding \cup {NoRow}]]
  /\ publication \in [Runs -> [step : Steps, identity : Nat, retries : Nat]]

Drafted(r, i) == draft[r][i] # NoRow

AllAgree ==
  \A i \in Identities :
    /\ \A k \in DOMAIN ledger[i] : Agrees(ledger[i][k], i)
    /\ \A r \in Runs : Drafted(r, i) => Agrees(draft[r][i], i)

\* A drafted row is the active finding with its run added, or a new one, and the only draft
\* of its identity; a transaction has drafted its candidates up to where it is.
DraftsExtend ==
  \A r \in Runs, i \in Identities : Drafted(r, i) =>
    /\ draft[r][i].seen = (IF HasActive(i) THEN Last(ledger[i]).seen ELSE {}) \cup {r}
    /\ \A q \in Runs : Drafted(q, i) => q = r

Publishing(r) == publication[r].step \in {"reading", "inserting", "rereading"}

DraftsFollow ==
  \A r \in Runs :
    /\ publication[r].step \in {"absent", "due"} => publication[r].identity = 0
    /\ publication[r].step \in {"inserting", "rereading"} => After(r, publication[r].identity) # {}
    /\ \A i \in Identities :
         Drafted(r, i) <=> Publishing(r) /\ i \in Candidates(r) /\ i <= publication[r].identity

\* A run has recorded a candidate once when it is completed, and nothing before.
RecordedOnce(r, i) ==
  IF publication[r].step = "COMPLETED" /\ i \in Candidates(r)
  THEN \E k \in DOMAIN ledger[i] :
         \A j \in DOMAIN ledger[i] : r \in ledger[i][j].seen <=> j = k
  ELSE \A k \in DOMAIN ledger[i] : r \notin ledger[i][k].seen

AllRecorded == \A r \in Runs, i \in Identities : RecordedOnce(r, i)

LedgerInv == LedgerTyped /\ AllAgree /\ DraftsExtend /\ DraftsFollow /\ AllRecorded

-----------------------------------------------------------------------------
(* Candidates *)

\* A candidate has the rank of one of its detections.
LEMMA SeverityIsRank ==
  ASSUME LedgerTyped, NEW r \in Runs, NEW i \in Candidates(r)
  PROVE  MergedSeverity(r, i) \in SeverityRanks
<1>1. Severities(r, i) \in SUBSET (0..4) /\ Severities(r, i) \subseteq SeverityRanks
  BY LedgerAssumption DEF LedgerTyped, Severities, SeverityRanks
<1>2. Severities(r, i) # {}
  BY DEF Candidates
<1>3. Max(Severities(r, i)) \in Severities(r, i)
  BY <1>1, <1>2, GreatestExists
<1> QED
  BY <1>1, <1>3 DEF MergedSeverity

\* The candidate that a publication is at is the first one it has not drafted.
LEMMA CurrentIsNext ==
  ASSUME NEW r \in Runs, After(r, publication[r].identity) # {}
  PROVE  /\ Current(r) \in Identities /\ Current(r) \in Candidates(r)
         /\ Current(r) > publication[r].identity
         /\ \A j \in Candidates(r) : j > publication[r].identity => Current(r) <= j
<1>1. After(r, publication[r].identity) \in SUBSET Nat
  BY LedgerAssumption DEF After, Candidates
<1>2. /\ Current(r) \in After(r, publication[r].identity)
      /\ \A j \in After(r, publication[r].identity) : Current(r) <= j
  BY <1>1, MinIsLeast DEF Current
<1> QED
  BY <1>2 DEF After, Candidates

-----------------------------------------------------------------------------
(* Rows *)

LEMMA RowsTyped ==
  ASSUME LedgerInv, NEW i \in Identities
  PROVE  /\ ledger[i] \in Seq(Finding)
         /\ \A k \in DOMAIN ledger[i] : ledger[i][k] \in Finding
         /\ ledger[i] # <<>> => /\ Len(ledger[i]) \in DOMAIN ledger[i]
                                /\ Last(ledger[i]) = ledger[i][Len(ledger[i])]
<1>1. ledger[i] \in Seq(Finding)
  BY DEF LedgerInv, LedgerTyped
<1> QED
  BY <1>1 DEF Last

LEMMA NewFindingAgrees ==
  ASSUME LedgerTyped, NEW r \in Runs, NEW i \in Identities, i \in Candidates(r)
  PROVE  /\ NewFinding(r, i) \in Finding /\ NewFinding(r, i).seen = {r}
         /\ Agrees(NewFinding(r, i), i)
<1>1. MergedSeverity(r, i) \in SeverityRanks /\ r \in Nat
  BY SeverityIsRank, LedgerAssumption
<1>2. IsFiniteSet({r}) /\ Cardinality({r}) = 1
  BY FS_Singleton
<1> QED
  BY <1>1, <1>2 DEF NewFinding, Finding, ActiveStatus, SeverityRanks, Agrees, Greatest

\* Joining keeps the columns in agreement, whether or not the run is later than the last one
\* and whether or not the finding has it already.
LEMMA JoinedAgrees ==
  ASSUME LedgerTyped, NEW r \in Runs, NEW i \in Identities, i \in Candidates(r),
         NEW f \in Finding, Agrees(f, i)
  PROVE  /\ Joined(f, r, i) \in Finding /\ Joined(f, r, i).seen = f.seen \cup {r}
         /\ Agrees(Joined(f, r, i), i)
<1> DEFINE m == MergedSeverity(r, i)
           g == Joined(f, r, i)
           ranks == {MergedSeverity(q, i) : q \in f.seen}
<1>1. m \in SeverityRanks /\ f.severity \in SeverityRanks /\ SeverityRanks \subseteq Nat
  BY SeverityIsRank DEF Finding, SeverityRanks
<1> HIDE DEF m
<1>2. /\ Max({f.severity, m}) \in {f.severity, m}
      /\ f.severity <= Max({f.severity, m}) /\ m <= Max({f.severity, m})
  <2>1. {f.severity, m} \in SUBSET (0..4) /\ {f.severity, m} # {}
    BY <1>1 DEF SeverityRanks
  <2> QED
    BY <2>1, GreatestExists
<1> DEFINE top == Max({f.severity, m})
<1> HIDE DEF top
<1>3. /\ g.seen = f.seen \cup {r} /\ g.last = (IF r >= f.last THEN r ELSE f.last)
      /\ g.severity = top
      /\ g.count = f.count + (IF r \in f.seen THEN 0 ELSE 1)
  BY DEF Joined, Finding, top, m
<1>4. g \in Finding
  <2>1. g = [f EXCEPT !.count = g.count, !.seen = g.seen, !.last = g.last, !.severity = top]
    BY DEF Joined, Finding, top, m
  <2>2. g.count \in Nat /\ g.seen \in SUBSET Runs /\ g.last \in Runs /\ top \in SeverityRanks
    BY <1>1, <1>2, <1>3 DEF Finding, top
  <2> HIDE DEF g
  <2> QED
    BY <2>1, <2>2 DEF Finding
<1> HIDE DEF g
<1>5. IsFiniteSet(g.seen) /\ g.count = Cardinality(g.seen)
  <2>1. /\ IsFiniteSet(f.seen \cup {r})
        /\ Cardinality(f.seen \cup {r}) =
             IF r \in f.seen THEN Cardinality(f.seen) ELSE Cardinality(f.seen) + 1
    BY FS_AddElement DEF Agrees
  <2>2. f.count = Cardinality(f.seen) /\ f.count \in Nat
    BY DEF Agrees, Finding
  <2> QED
    BY <1>3, <2>1, <2>2
<1>6. Greatest(g.last, g.seen)
  <2>1. f.seen \cup {r} \subseteq Nat
    BY LedgerAssumption DEF Finding
  <2> QED
    BY <1>3, <2>1 DEF Agrees, Greatest
<1>7. {MergedSeverity(q, i) : q \in g.seen} = ranks \cup {m}
  BY <1>3 DEF m
<1>8. Greatest(top, ranks \cup {m})
  <2>1. ranks \subseteq SeverityRanks
    BY SeverityIsRank DEF Agrees, Finding
  <2>2. Greatest(f.severity, ranks)
    BY DEF Agrees
  <2> HIDE DEF ranks
  <2>3. top \in {f.severity, m} /\ f.severity <= top /\ m <= top /\ top \in Nat
    BY <1>1, <1>2 DEF top
  <2>4. top \in ranks \cup {m}
    BY <2>2, <2>3 DEF Greatest
  <2>5. ASSUME NEW x \in ranks PROVE x <= top
    <3>1. x <= f.severity /\ x \in Nat /\ f.severity \in Nat
      BY <1>1, <2>1, <2>2 DEF Greatest
    <3> QED
      BY <2>3, <3>1
  <2> QED
    BY <2>3, <2>4, <2>5 DEF Greatest
<1>9. g.seen # {} /\ \A q \in g.seen : i \in Candidates(q)
  BY <1>3 DEF Agrees
<1> HIDE DEF ranks
<1> QED
  BY <1>3, <1>4, <1>5, <1>6, <1>7, <1>8, <1>9 DEF Agrees, g

-----------------------------------------------------------------------------
(* Steps of a publication before its commit *)

\* Candidates and their ranks are those of the detections, which do not change.
LEMMA SameCandidates ==
  ASSUME UNCHANGED detected
  PROVE  /\ \A r, i : (i \in Candidates(r)) <=> (i \in Candidates(r))'
         /\ \A f, i : Agrees(f, i) <=> Agrees(f, i)'
         /\ \A r, n : After(r, n)' = After(r, n)
  BY DEF Candidates, Severities, MergedSeverity, Agrees, After

\* The run moves on without a row: its drafts and the ledger stay.
LEMMA MoveLedger ==
  ASSUME LedgerInv, NEW r \in Runs, NEW step \in Steps,
         publication' = [publication EXCEPT ![r].step = step],
         UNCHANGED <<detected, ledger, draft>>,
         publication[r].step # "COMPLETED", step # "COMPLETED",
         step \in {"absent", "due"} => publication[r].identity = 0,
         step \in {"inserting", "rereading"} => After(r, publication[r].identity) # {},
         \A i \in Identities :
           Drafted(r, i) <=> /\ step \in {"reading", "inserting", "rereading"}
                             /\ i \in Candidates(r) /\ i <= publication[r].identity
  PROVE  LedgerInv'
<1> USE DEF LedgerInv
<1>1. /\ publication' \in [Runs -> [step : Steps, identity : Nat, retries : Nat]]
      /\ publication'[r].step = step /\ publication'[r].identity = publication[r].identity
      /\ \A q \in Runs \ {r} : publication'[q] = publication[q]
  BY DEF LedgerTyped
<1>2. LedgerTyped'
  BY <1>1 DEF LedgerTyped
<1>3. AllAgree' /\ DraftsExtend'
  BY SameCandidates DEF AllAgree, DraftsExtend, Drafted, HasActive
<1>4. DraftsFollow'
  BY <1>1, SameCandidates DEF DraftsFollow, Drafted, Publishing
<1>5. AllRecorded'
  <2> SUFFICES ASSUME NEW q \in Runs, NEW i \in Identities PROVE RecordedOnce(q, i)'
    BY DEF AllRecorded
  <2>1. publication[q].step = "COMPLETED" <=> publication'[q].step = "COMPLETED"
    BY <1>1
  <2> QED
    BY <2>1, SameCandidates DEF AllRecorded, RecordedOnce
<1> QED
  BY <1>2, <1>3, <1>4, <1>5

\* The run drafts the row of the candidate it is at.
LEMMA WriteLedger ==
  ASSUME LedgerInv, NEW r \in Runs, After(r, publication[r].identity) # {}, Publishing(r),
         NEW row \in Finding, Agrees(row, Current(r)),
         row.seen = (IF HasActive(Current(r)) THEN Last(ledger[Current(r)]).seen ELSE {}) \cup {r},
         ~HeldBeside(r, Current(r)), Writes(r, Current(r), row)
  PROVE  LedgerInv'
<1> USE DEF LedgerInv
<1> DEFINE i == Current(r)
<1>1. /\ i \in Identities /\ i \in Candidates(r) /\ i > publication[r].identity
      /\ \A j \in Candidates(r) : j > publication[r].identity => i <= j
      /\ Identities \subseteq Nat
  BY CurrentIsNext, LedgerAssumption
<1>2. /\ draft' = [draft EXCEPT ![r][i] = row] /\ UNCHANGED <<detected, ledger>>
      /\ publication' = [publication EXCEPT ![r].step = "reading", ![r].identity = i]
      /\ row.seen = (IF HasActive(i) THEN Last(ledger[i]).seen ELSE {}) \cup {r}
      /\ \A q \in Runs \ {r} : ~Drafted(q, i)
      /\ Agrees(row, i)
  BY DEF Writes, HeldBeside, Drafted
<1> HIDE DEF i
<1>3. /\ publication' \in [Runs -> [step : Steps, identity : Nat, retries : Nat]]
      /\ publication'[r].step = "reading" /\ publication'[r].identity = i
      /\ \A q \in Runs \ {r} : publication'[q] = publication[q]
  BY <1>1, <1>2 DEF LedgerTyped, Steps
<1>4. /\ draft' \in [Runs -> [Identities -> Finding \cup {NoRow}]]
      /\ draft'[r][i] = row
      /\ \A j \in Identities \ {i} : draft'[r][j] = draft[r][j]
      /\ \A q \in Runs \ {r} : draft'[q] = draft[q]
  BY <1>1, <1>2 DEF LedgerTyped
<1>5. LedgerTyped'
  BY <1>2, <1>3, <1>4 DEF LedgerTyped
<1>6. row # NoRow
  BY LedgerAssumption
<1>7. AllAgree'
  <2> SUFFICES ASSUME NEW j \in Identities
               PROVE  (/\ \A k \in DOMAIN ledger[j] : Agrees(ledger[j][k], j)
                       /\ \A q \in Runs : Drafted(q, j) => Agrees(draft[q][j], j))'
    BY DEF AllAgree
  <2>1. ASSUME NEW k \in DOMAIN ledger'[j]
        PROVE  Agrees(ledger[j][k], j)'
    <3>1. Agrees(ledger'[j][k], j)
      BY <1>2 DEF AllAgree
    <3> QED
      BY <1>2, <3>1 DEF Agrees, Candidates, Severities, MergedSeverity
  <2>2. ASSUME NEW q \in Runs, Drafted(q, j)'
        PROVE  Agrees(draft[q][j], j)'
    <3>1. Agrees(draft'[q][j], j)
      BY <1>2, <1>4, <2>2 DEF AllAgree, Drafted
    <3> QED
      BY <1>2, <3>1 DEF Agrees, Candidates, Severities, MergedSeverity
  <2> QED
    BY <2>1, <2>2
<1>8. DraftsExtend'
  <2> SUFFICES ASSUME NEW q \in Runs, NEW j \in Identities, draft'[q][j] # NoRow
               PROVE  /\ draft'[q][j].seen = (IF HasActive(j) THEN Last(ledger[j]).seen ELSE {}) \cup {q}
                      /\ \A p \in Runs : draft'[p][j] # NoRow => p = q
    BY <1>2 DEF DraftsExtend, Drafted, HasActive
  <2>1. CASE j = i
    BY <1>2, <1>4, <2>1 DEF Drafted
  <2>2. CASE j # i
    <3>1. \A p \in Runs : draft'[p][j] = draft[p][j]
      BY <1>4, <2>2
    <3> QED
      BY <3>1 DEF DraftsExtend, Drafted
  <2> QED
    BY <2>1, <2>2
<1>9. DraftsFollow'
  <2>1. \A j \in Identities : draft'[r][j] # NoRow <=> j \in Candidates(r) /\ j <= i
    <3> SUFFICES ASSUME NEW j \in Identities
                 PROVE  draft'[r][j] # NoRow <=> j \in Candidates(r) /\ j <= i
      OBVIOUS
    <3>1. CASE j = i
      BY <1>1, <1>4, <1>6, <3>1
    <3>2. CASE j # i
      <4>1. draft'[r][j] = draft[r][j] /\ j \in Nat /\ i \in Nat /\ publication[r].identity \in Nat
        BY <1>1, <1>4, <3>2 DEF LedgerTyped
      <4>2. Drafted(r, j) <=> j \in Candidates(r) /\ j <= publication[r].identity
        BY DEF DraftsFollow
      <4> QED
        BY <1>1, <3>2, <4>1, <4>2 DEF Drafted
    <3> QED
      BY <3>1, <3>2
  <2>2. \A q \in Runs \ {r} : \A j \in Identities : Drafted(q, j)' <=> Drafted(q, j)
    BY <1>4 DEF Drafted
  <2>3. \A q \in Runs : Candidates(q)' = Candidates(q)
    BY <1>2 DEF Candidates, Severities
  <2> SUFFICES ASSUME NEW q \in Runs
               PROVE  (/\ publication[q].step \in {"absent", "due"} => publication[q].identity = 0
                       /\ publication[q].step \in {"inserting", "rereading"} =>
                            After(q, publication[q].identity) # {}
                       /\ \A j \in Identities :
                            Drafted(q, j) <=> /\ Publishing(q) /\ j \in Candidates(q)
                                              /\ j <= publication[q].identity)'
    BY DEF DraftsFollow
  <2>4. CASE q = r
    <3>1. publication'[q].step = "reading" /\ publication'[q].identity = i
      BY <1>3, <2>4
    <3>2. \A j \in Identities : Drafted(q, j)' <=> j \in Candidates(q) /\ j <= i
      BY <2>1, <2>4 DEF Drafted
    <3> QED
      BY <2>3, <3>1, <3>2 DEF Publishing
  <2>5. CASE q # r
    <3>1. publication'[q] = publication[q] /\ publication[q].identity \in Nat
      BY <1>3, <2>5 DEF LedgerTyped
    <3>2. Publishing(q)' <=> Publishing(q)
      BY <3>1 DEF Publishing
    <3>3. After(q, publication[q].identity)' = After(q, publication[q].identity)
      BY <2>3, <3>1 DEF After
    <3> QED
      BY <2>2, <2>3, <2>5, <3>1, <3>2, <3>3 DEF DraftsFollow
  <2> QED
    BY <2>4, <2>5
<1>10. AllRecorded'
  <2> SUFFICES ASSUME NEW q \in Runs, NEW j \in Identities PROVE RecordedOnce(q, j)'
    BY DEF AllRecorded
  <2>1. publication[q].step = "COMPLETED" <=> publication'[q].step = "COMPLETED"
    BY <1>3 DEF Publishing
  <2> QED
    BY <1>2, <2>1, SameCandidates DEF AllRecorded, RecordedOnce
<1> QED
  BY <1>5, <1>7, <1>8, <1>9, <1>10

\* A transaction that is rolled back leaves nothing behind.
LEMMA GiveBackLedger ==
  ASSUME LedgerInv, NEW r \in Runs, Publishing(r), GiveBack(r)
  PROVE  LedgerInv'
<1> USE DEF LedgerInv
<1>1. /\ draft' = [draft EXCEPT ![r] = NoDraft] /\ UNCHANGED <<detected, ledger>>
      /\ \A i \in Identities : NoDraft[i] = NoRow
      /\ NoDraft \in [Identities -> Finding \cup {NoRow}]
  BY DEF GiveBack, NoDraft
<1>2. PICK row \in [step : {"due", "FAILED"}, identity : {0}, retries : Nat] :
        publication' = [publication EXCEPT ![r] = row]
  <2>1. publication[r] \in [step : Steps, identity : Nat, retries : Nat]
    BY DEF LedgerTyped
  <2> DEFINE again == [step |-> "due", identity |-> 0, retries |-> publication[r].retries + 1]
             never == [step |-> "FAILED", identity |-> 0, retries |-> publication[r].retries]
  <2>2. /\ again \in [step : {"due", "FAILED"}, identity : {0}, retries : Nat]
        /\ never \in [step : {"due", "FAILED"}, identity : {0}, retries : Nat]
    BY <2>1
  <2>3. publication' = [publication EXCEPT ![r] =
                          IF publication[r].retries < PublicationRetries THEN again ELSE never]
    BY DEF GiveBack
  <2> QED
    BY <2>2, <2>3
<1>3. /\ publication' \in [Runs -> [step : Steps, identity : Nat, retries : Nat]]
      /\ publication'[r].step \in {"due", "FAILED"} /\ publication'[r].identity = 0
      /\ \A q \in Runs \ {r} : publication'[q] = publication[q]
  BY <1>2 DEF LedgerTyped, Steps
<1>4. /\ draft' \in [Runs -> [Identities -> Finding \cup {NoRow}]]
      /\ \A i \in Identities : draft'[r][i] = NoRow
      /\ \A q \in Runs \ {r} : draft'[q] = draft[q]
  BY <1>1 DEF LedgerTyped
<1>5. LedgerTyped'
  BY <1>1, <1>3, <1>4 DEF LedgerTyped
<1>6. \A q \in Runs, i \in Identities :
        draft'[q][i] # NoRow => q # r /\ draft'[q][i] = draft[q][i]
  BY <1>4
<1>7. AllAgree'
  BY <1>1, <1>6, SameCandidates DEF AllAgree, Drafted
<1>8. DraftsExtend'
  BY <1>1, <1>6 DEF DraftsExtend, Drafted, HasActive
<1>9. DraftsFollow'
  <2>1. \A q \in Runs \ {r} : \A j \in Identities : Drafted(q, j)' <=> Drafted(q, j)
    BY <1>4 DEF Drafted
  <2>2. \A j \in Identities : ~Drafted(r, j)'
    BY <1>4 DEF Drafted
  <2>3. ~Publishing(r)' /\ publication'[r].step \notin {"inserting", "rereading"}
    BY <1>3 DEF Publishing
  <2>4. \A q \in Runs \ {r} : Publishing(q)' <=> Publishing(q)
    BY <1>3 DEF Publishing
  <2> SUFFICES ASSUME NEW q \in Runs
               PROVE  (/\ publication[q].step \in {"absent", "due"} => publication[q].identity = 0
                       /\ publication[q].step \in {"inserting", "rereading"} =>
                            After(q, publication[q].identity) # {}
                       /\ \A j \in Identities : Drafted(q, j) <=>
                            Publishing(q) /\ j \in Candidates(q) /\ j <= publication[q].identity)'
    BY DEF DraftsFollow
  <2>5. CASE q = r
    BY <1>3, <2>2, <2>3, <2>5
  <2>6. CASE q # r
    <3>1. publication'[q] = publication[q]
      BY <1>3, <2>6
    <3> QED
      BY <1>1, <2>1, <2>4, <2>6, <3>1 DEF DraftsFollow, After, Candidates, Severities
  <2> QED
    BY <2>5, <2>6
<1>10. AllRecorded'
  <2> SUFFICES ASSUME NEW q \in Runs, NEW j \in Identities PROVE RecordedOnce(q, j)'
    BY DEF AllRecorded
  <2>1. publication[q].step = "COMPLETED" <=> publication'[q].step = "COMPLETED"
    BY <1>3 DEF Publishing
  <2> QED
    BY <1>1, <2>1, SameCandidates DEF AllRecorded, RecordedOnce
<1> QED
  BY <1>5, <1>7, <1>8, <1>9, <1>10

-----------------------------------------------------------------------------
(* Commit *)

\* What the commit leaves of an identity: its rows, the last one replaced or a new one added.
LEMMA CommittedRows ==
  ASSUME LedgerInv, NEW r \in Runs, CommitPublication(r), NEW i \in Identities
  PROVE  IF Drafted(r, i)
         THEN /\ ledger'[i] = (IF HasActive(i) THEN [ledger[i] EXCEPT ![Len(ledger[i])] = draft[r][i]]
                               ELSE Append(ledger[i], draft[r][i]))
              /\ DOMAIN ledger'[i] = DOMAIN ledger[i] \cup {Len(ledger'[i])}
              /\ Len(ledger'[i]) \in DOMAIN ledger'[i]
              /\ ledger'[i] \in Seq(Finding)
              /\ ledger'[i][Len(ledger'[i])] = draft[r][i]
              /\ \A k \in DOMAIN ledger'[i] \ {Len(ledger'[i])} :
                   k \in DOMAIN ledger[i] /\ ledger'[i][k] = ledger[i][k]
              /\ HasActive(i) => /\ Len(ledger'[i]) = Len(ledger[i])
                                 /\ Len(ledger[i]) \in DOMAIN ledger[i]
                                 /\ Last(ledger[i]) = ledger[i][Len(ledger[i])]
              /\ ~HasActive(i) => Len(ledger'[i]) \notin DOMAIN ledger[i]
         ELSE ledger'[i] = ledger[i]
<1>1. CASE ~Drafted(r, i)
  BY <1>1 DEF CommitPublication, Drafted
<1>2. CASE Drafted(r, i)
  <2> DEFINE s == ledger[i]
             d == draft[r][i]
  <2>1. s \in Seq(Finding) /\ d \in Finding
    BY <1>2 DEF LedgerInv, LedgerTyped, Drafted
  <2>2. ledger'[i] = IF HasActive(i) THEN [s EXCEPT ![Len(s)] = d] ELSE Append(s, d)
    BY <1>2 DEF CommitPublication, Drafted
  <2>3. HasActive(i) => Len(s) \in DOMAIN s /\ Last(s) = s[Len(s)]
    BY <2>1 DEF HasActive, Last
  <2> HIDE DEF s, d
  <2>4. CASE HasActive(i)
    <3> DEFINE t == [s EXCEPT ![Len(s)] = d]
    <3>1. t \in Seq(Finding) /\ Len(t) = Len(s) /\ DOMAIN t = DOMAIN s /\ t[Len(s)] = d
      BY <2>1, <2>3, <2>4
    <3>2. \A k \in DOMAIN s \ {Len(s)} : t[k] = s[k]
      BY <2>1
    <3> HIDE DEF t
    <3>3. ledger'[i] = t
      BY <2>2, <2>4 DEF t
    <3> QED
      BY <1>2, <2>2, <2>3, <2>4, <3>1, <3>2, <3>3 DEF s, d
  <2>5. CASE ~HasActive(i)
    <3> DEFINE t == Append(s, d)
    <3>1. /\ t \in Seq(Finding) /\ Len(t) = Len(s) + 1 /\ DOMAIN t = 1..(Len(s) + 1)
          /\ DOMAIN s = 1..Len(s) /\ Len(s) \in Nat /\ t[Len(s) + 1] = d
          /\ \A k \in 1..Len(s) : t[k] = s[k]
      BY <2>1
    <3> HIDE DEF t
    <3>2. ledger'[i] = t
      BY <2>2, <2>5 DEF t
    <3>3. /\ DOMAIN t = DOMAIN s \cup {Len(t)} /\ Len(t) \in DOMAIN t /\ Len(t) \notin DOMAIN s
          /\ \A k \in DOMAIN t \ {Len(t)} : k \in DOMAIN s /\ t[k] = s[k]
      BY <3>1
    <3> QED
      BY <1>2, <2>2, <2>5, <3>1, <3>2, <3>3 DEF s, d
  <2> QED
    BY <2>4, <2>5
<1> QED
  BY <1>1, <1>2

LEMMA CommitLedger ==
  ASSUME LedgerInv, NEW r \in Runs, CommitPublication(r)
  PROVE  LedgerInv'
<1>1. /\ publication' = [publication EXCEPT ![r].step = "COMPLETED"]
      /\ draft' = [draft EXCEPT ![r] = NoDraft] /\ UNCHANGED detected
      /\ publication[r].step = "reading" /\ After(r, publication[r].identity) = {}
      /\ DOMAIN ledger' = Identities
  BY DEF CommitPublication
<1>2. /\ publication' \in [Runs -> [step : Steps, identity : Nat, retries : Nat]]
      /\ publication'[r].step = "COMPLETED"
      /\ \A q \in Runs \ {r} : publication'[q] = publication[q]
  BY <1>1 DEF LedgerInv, LedgerTyped, Steps
<1>3. /\ draft' \in [Runs -> [Identities -> Finding \cup {NoRow}]]
      /\ \A i \in Identities : ~Drafted(r, i)'
      /\ \A q \in Runs \ {r} : draft'[q] = draft[q]
  BY <1>1 DEF LedgerInv, LedgerTyped, NoDraft, Drafted
\* the drafted candidates are all the candidates
<1>4. \A i \in Identities : Drafted(r, i) <=> i \in Candidates(r)
  <2>1. \A j \in Candidates(r) : j \in Nat /\ publication[r].identity \in Nat
    BY LedgerAssumption DEF Candidates, LedgerInv, LedgerTyped
  <2>2. \A j \in Candidates(r) : ~(j > publication[r].identity)
    BY <1>1 DEF After
  <2> QED
    BY <1>1, <2>1, <2>2 DEF LedgerInv, DraftsFollow, Publishing
<1>5. LedgerTyped'
  <2>1. \A i \in Identities : ledger'[i] \in Seq(Finding)
    BY CommittedRows DEF LedgerInv, LedgerTyped
  <2>2. ledger' = [i \in Identities |-> ledger'[i]]
    BY DEF CommitPublication
  <2> QED
    BY <1>1, <1>2, <1>3, <2>1, <2>2 DEF LedgerInv, LedgerTyped
<1>6. AllAgree'
  <2> SUFFICES ASSUME NEW j \in Identities
               PROVE  (/\ \A k \in DOMAIN ledger[j] : Agrees(ledger[j][k], j)
                       /\ \A q \in Runs : Drafted(q, j) => Agrees(draft[q][j], j))'
    BY DEF AllAgree
  <2>1. ASSUME NEW k \in DOMAIN ledger'[j]
        PROVE  Agrees(ledger[j][k], j)'
    <3>1. Agrees(ledger'[j][k], j)
      BY CommittedRows DEF LedgerInv, AllAgree
    <3> QED
      BY <1>1, <3>1 DEF Agrees, Candidates, Severities, MergedSeverity
  <2>2. ASSUME NEW q \in Runs, Drafted(q, j)'
        PROVE  Agrees(draft[q][j], j)'
    <3>1. Agrees(draft'[q][j], j)
      BY <1>3, <2>2 DEF LedgerInv, AllAgree, Drafted
    <3> QED
      BY <1>1, <3>1 DEF Agrees, Candidates, Severities, MergedSeverity
  <2> QED
    BY <2>1, <2>2
\* another run has no draft of an identity that this one commits
<1>7. DraftsExtend'
  <2> SUFFICES ASSUME NEW q \in Runs, NEW j \in Identities, Drafted(q, j)'
               PROVE  (/\ draft[q][j].seen = (IF HasActive(j) THEN Last(ledger[j]).seen ELSE {})
                                               \cup {q}
                       /\ \A p \in Runs : Drafted(p, j) => p = q)'
    BY DEF DraftsExtend
  <2>1. q # r /\ Drafted(q, j) /\ draft'[q] = draft[q]
    BY <1>3 DEF Drafted
  <2>2. ~Drafted(r, j)
    BY <2>1 DEF LedgerInv, DraftsExtend
  <2>3. ledger'[j] = ledger[j]
    BY <2>2, CommittedRows
  <2>4. draft[q][j].seen = (IF HasActive(j) THEN Last(ledger[j]).seen ELSE {}) \cup {q}
    BY <2>1 DEF LedgerInv, DraftsExtend
  <2>5. (\A p \in Runs : Drafted(p, j) => p = q)'
    <3>1. \A p \in Runs \ {r} : Drafted(p, j)' <=> Drafted(p, j)
      BY <1>3 DEF Drafted
    <3> QED
      BY <1>3, <2>1, <3>1 DEF LedgerInv, DraftsExtend
  <2> QED
    BY <2>1, <2>3, <2>4, <2>5 DEF HasActive
<1>8. DraftsFollow'
  <2>1. \A q \in Runs \ {r} : \A j \in Identities : Drafted(q, j)' <=> Drafted(q, j)
    BY <1>3 DEF Drafted
  <2>2. ~Publishing(r)' /\ publication'[r].step \notin {"absent", "due", "inserting", "rereading"}
    BY <1>2 DEF Publishing
  <2>3. \A q \in Runs \ {r} : Publishing(q)' <=> Publishing(q)
    BY <1>2 DEF Publishing
  <2> SUFFICES ASSUME NEW q \in Runs
               PROVE  (/\ publication[q].step \in {"absent", "due"} => publication[q].identity = 0
                       /\ publication[q].step \in {"inserting", "rereading"} =>
                            After(q, publication[q].identity) # {}
                       /\ \A j \in Identities : Drafted(q, j) <=>
                            Publishing(q) /\ j \in Candidates(q) /\ j <= publication[q].identity)'
    BY DEF DraftsFollow
  <2>4. CASE q = r
    BY <1>3, <2>2, <2>4
  <2>5. CASE q # r
    <3>1. publication'[q] = publication[q]
      BY <1>2, <2>5
    <3> QED
      BY <1>1, <2>1, <2>3, <2>5, <3>1 DEF LedgerInv, DraftsFollow, After, Candidates, Severities
  <2> QED
    BY <2>4, <2>5
<1>9. AllRecorded'
  <2> SUFFICES ASSUME NEW q \in Runs, NEW j \in Identities PROVE RecordedOnce(q, j)'
    BY DEF AllRecorded
  <2>1. RecordedOnce(q, j) /\ RecordedOnce(r, j)
    BY DEF LedgerInv, AllRecorded
  <2>2. \A k \in DOMAIN ledger[j] : r \notin ledger[j][k].seen
    BY <1>1, <2>1 DEF RecordedOnce
  <2>3. (j \in Candidates(q))' <=> (j \in Candidates(q))
    BY <1>1 DEF Candidates, Severities
  <2>4. q # r => publication'[q] = publication[q]
    BY <1>2
  <2>5. CASE ~Drafted(r, j)
    <3>1. ledger'[j] = ledger[j]
      BY <2>5, CommittedRows
    <3>2. CASE q = r
      BY <1>4, <2>2, <2>3, <2>5, <3>1, <3>2 DEF RecordedOnce
    <3>3. CASE q # r
      BY <2>1, <2>3, <2>4, <3>1, <3>3 DEF RecordedOnce
    <3> QED
      BY <3>2, <3>3
  <2>6. CASE Drafted(r, j)
    <3> DEFINE n == Len(ledger'[j])
    <3>1. /\ DOMAIN ledger'[j] = DOMAIN ledger[j] \cup {n} /\ n \in DOMAIN ledger'[j]
          /\ ledger'[j][n] = draft[r][j]
          /\ \A k \in DOMAIN ledger'[j] \ {n} :
               k \in DOMAIN ledger[j] /\ ledger'[j][k] = ledger[j][k]
          /\ HasActive(j) => n \in DOMAIN ledger[j] /\ Last(ledger[j]) = ledger[j][n]
          /\ ~HasActive(j) => n \notin DOMAIN ledger[j]
      BY <2>6, CommittedRows
    <3>2. draft[r][j].seen = (IF HasActive(j) THEN Last(ledger[j]).seen ELSE {}) \cup {r}
      BY <2>6 DEF LedgerInv, DraftsExtend
    <3> HIDE DEF n
    <3>3. CASE q = r
      <4>1. j \in Candidates(r) /\ publication'[r].step = "COMPLETED"
        BY <1>2, <1>4, <2>6
      <4>2. \A k \in DOMAIN ledger'[j] : r \in ledger'[j][k].seen <=> k = n
        BY <2>2, <3>1, <3>2
      <4> QED
        BY <2>3, <3>1, <3>3, <4>1, <4>2 DEF RecordedOnce
    <3>4. CASE q # r
      <4>1. \A k \in DOMAIN ledger'[j] :
              q \in ledger'[j][k].seen <=> k \in DOMAIN ledger[j] /\ q \in ledger[j][k].seen
        BY <3>1, <3>2, <3>4
      <4>2. DOMAIN ledger[j] \subseteq DOMAIN ledger'[j]
        BY <3>1
      <4>3. CASE publication[q].step = "COMPLETED" /\ j \in Candidates(q)
        <5>1. PICK k \in DOMAIN ledger[j] :
                \A x \in DOMAIN ledger[j] : q \in ledger[j][x].seen <=> x = k
          BY <2>1, <4>3 DEF RecordedOnce
        <5>2. \A x \in DOMAIN ledger'[j] : q \in ledger'[j][x].seen <=> x = k
          BY <4>1, <5>1
        <5> QED
          BY <2>3, <2>4, <3>4, <4>2, <4>3, <5>2 DEF RecordedOnce
      <4>4. CASE ~(publication[q].step = "COMPLETED" /\ j \in Candidates(q))
        BY <2>1, <2>3, <2>4, <3>4, <4>1, <4>4 DEF RecordedOnce
      <4> QED
        BY <4>3, <4>4
    <3> QED
      BY <3>3, <3>4
  <2> QED
    BY <2>5, <2>6
<1> QED
  BY <1>5, <1>6, <1>7, <1>8, <1>9 DEF LedgerInv

-----------------------------------------------------------------------------
(* Review *)

\* A reviewer changes the status of the last row of an identity that nobody drafts.
LEMMA ReviewLedger ==
  ASSUME LedgerInv, NEW i \in Identities, NEW from, NEW to \in ActiveStatus \cup TerminalStatus,
         TransitionFinding(i, from, to)
  PROVE  LedgerInv'
<1> DEFINE s == ledger[i]
           n == Len(s)
           f == s[n]
           g == [f EXCEPT !.status = to]
           t == [s EXCEPT ![n] = g]
<1>1. /\ UNCHANGED <<detected, draft, publication>>
      /\ \A r \in Runs : ~Drafted(r, i)
      /\ ledger' = [ledger EXCEPT ![i] = t]
  BY DEF TransitionFinding, Drafted
<1>2. s \in Seq(Finding) /\ n \in DOMAIN s /\ f \in Finding
  BY DEF TransitionFinding, HasActive, LedgerInv, LedgerTyped
<1>3. /\ g \in Finding /\ g.seen = f.seen /\ g.count = f.count /\ g.last = f.last
      /\ g.severity = f.severity
  BY <1>2 DEF Finding
<1> HIDE DEF s, n, f, g
<1>4. /\ t \in Seq(Finding) /\ DOMAIN t = DOMAIN s /\ t[n] = g
      /\ \A k \in DOMAIN s \ {n} : t[k] = s[k]
  BY <1>2, <1>3
<1> HIDE DEF t
<1>5. /\ ledger' \in [Identities -> Seq(Finding)] /\ ledger'[i] = t
      /\ \A j \in Identities \ {i} : ledger'[j] = ledger[j]
  BY <1>1, <1>4 DEF LedgerInv, LedgerTyped
\* no row changes in anything but its status
<1>6. ASSUME NEW j \in Identities
      PROVE  /\ DOMAIN ledger'[j] = DOMAIN ledger[j]
             /\ \A k \in DOMAIN ledger[j] :
                  /\ ledger'[j][k].seen = ledger[j][k].seen
                  /\ ledger'[j][k].count = ledger[j][k].count
                  /\ ledger'[j][k].last = ledger[j][k].last
                  /\ ledger'[j][k].severity = ledger[j][k].severity
  BY <1>3, <1>4, <1>5 DEF s, f
<1>7. LedgerTyped'
  BY <1>1, <1>5 DEF LedgerInv, LedgerTyped
<1>8. AllAgree'
  <2> SUFFICES ASSUME NEW j \in Identities
               PROVE  (/\ \A k \in DOMAIN ledger[j] : Agrees(ledger[j][k], j)
                       /\ \A q \in Runs : Drafted(q, j) => Agrees(draft[q][j], j))'
    BY DEF AllAgree
  <2>1. ASSUME NEW k \in DOMAIN ledger'[j]
        PROVE  Agrees(ledger[j][k], j)'
    <3>1. k \in DOMAIN ledger[j] /\ Agrees(ledger[j][k], j)
      BY <1>6 DEF LedgerInv, AllAgree
    <3>2. /\ ledger'[j][k].seen = ledger[j][k].seen
          /\ ledger'[j][k].count = ledger[j][k].count
          /\ ledger'[j][k].last = ledger[j][k].last
          /\ ledger'[j][k].severity = ledger[j][k].severity
      BY <1>6, <3>1
    <3>3. Agrees(ledger'[j][k], j)
      BY <3>1, <3>2 DEF Agrees
    <3> QED
      BY <1>1, <3>3 DEF Agrees, Candidates, Severities, MergedSeverity
  <2>2. ASSUME NEW q \in Runs, Drafted(q, j)'
        PROVE  Agrees(draft[q][j], j)'
    <3>1. Agrees(draft'[q][j], j)
      BY <1>1, <2>2 DEF LedgerInv, AllAgree, Drafted
    <3> QED
      BY <1>1, <3>1 DEF Agrees, Candidates, Severities, MergedSeverity
  <2> QED
    BY <2>1, <2>2
<1>9. DraftsExtend'
  <2> SUFFICES ASSUME NEW q \in Runs, NEW j \in Identities, Drafted(q, j)'
               PROVE  (/\ draft[q][j].seen = (IF HasActive(j) THEN Last(ledger[j]).seen ELSE {})
                                               \cup {q}
                       /\ \A p \in Runs : Drafted(p, j) => p = q)'
    BY DEF DraftsExtend
  <2>1. Drafted(q, j) /\ j # i
    BY <1>1 DEF Drafted
  <2>2. ledger'[j] = ledger[j]
    BY <1>5, <2>1
  <2> QED
    BY <1>1, <2>1, <2>2 DEF LedgerInv, DraftsExtend, Drafted, HasActive
<1>10. DraftsFollow'
  BY <1>1 DEF LedgerInv, DraftsFollow, Drafted, Publishing, After, Candidates, Severities
<1>11. AllRecorded'
  <2> SUFFICES ASSUME NEW q \in Runs, NEW j \in Identities PROVE RecordedOnce(q, j)'
    BY DEF AllRecorded
  <2>1. RecordedOnce(q, j)
    BY DEF LedgerInv, AllRecorded
  <2>2. (j \in Candidates(q))' <=> (j \in Candidates(q))
    BY <1>1 DEF Candidates, Severities
  <2> QED
    BY <1>1, <1>6, <2>1, <2>2 DEF RecordedOnce
<1> QED
  BY <1>7, <1>8, <1>9, <1>10, <1>11 DEF LedgerInv

-----------------------------------------------------------------------------
(* The invariant *)

LEMMA InitLedger == LedgerInit => LedgerInv
<1> SUFFICES ASSUME LedgerInit PROVE LedgerInv
  OBVIOUS
<1>1. \A i \in Identities : ledger[i] = <<>> /\ DOMAIN ledger[i] = {}
  BY DEF LedgerInit
<1>2. \A r \in Runs : /\ publication[r] = [step |-> "absent", identity |-> 0, retries |-> 0]
                      /\ \A i \in Identities : ~Drafted(r, i)
  BY DEF LedgerInit, NoDraft, Drafted
<1>3. LedgerTyped
  <2>1. <<>> \in Seq(Finding)
    OBVIOUS
  <2> QED
    BY <2>1 DEF LedgerInit, LedgerTyped, NoDraft, Steps
<1>4. DraftsFollow
  BY <1>2 DEF DraftsFollow, Publishing
<1>5. AllRecorded
  BY <1>1, <1>2 DEF AllRecorded, RecordedOnce
<1> QED
  BY <1>1, <1>2, <1>3, <1>4, <1>5 DEF LedgerInv, AllAgree, DraftsExtend

LEMMA NextLedger == LedgerInv /\ [LedgerNext]_ledgerVars => LedgerInv'
<1> SUFFICES ASSUME LedgerInv, [LedgerNext]_ledgerVars PROVE LedgerInv'
  OBVIOUS
<1> DEFINE Row(r) == /\ Last(ledger[Current(r)]) \in Finding
                     /\ Agrees(Last(ledger[Current(r)]), Current(r))
<1>1. ASSUME NEW r \in Runs, After(r, publication[r].identity) # {},
             HasActive(Current(r)), ~HeldBeside(r, Current(r)), Publishing(r),
             Writes(r, Current(r), Joined(Last(ledger[Current(r)]), r, Current(r)))
      PROVE  LedgerInv'
  <2>1. Current(r) \in Identities /\ Current(r) \in Candidates(r)
    BY <1>1, CurrentIsNext
  <2>2. Row(r)
    BY <1>1, <2>1, RowsTyped DEF HasActive, LedgerInv, AllAgree
  <2>3. LedgerTyped
    BY DEF LedgerInv
  <2>4. LET row == Joined(Last(ledger[Current(r)]), r, Current(r))
        IN  /\ row \in Finding /\ Agrees(row, Current(r))
            /\ row.seen = Last(ledger[Current(r)]).seen \cup {r}
    BY <2>1, <2>2, <2>3, JoinedAgrees
  <2> QED
    BY <1>1, <2>4, WriteLedger
<1>2. ASSUME NEW r \in Runs, NEW step \in {"due", "reading", "inserting", "rereading"},
             publication' = [publication EXCEPT ![r].step = step],
             UNCHANGED <<detected, ledger, draft>>,
             \/ publication[r].step = "absent" /\ step = "due"
             \/ publication[r].step = "due" /\ step = "reading"
             \/ /\ Publishing(r) /\ After(r, publication[r].identity) # {}
                /\ step \in {"inserting", "rereading"}
      PROVE  LedgerInv'
  <2>1. publication[r].step \in {"absent", "due"} => publication[r].identity = 0
    BY DEF LedgerInv, DraftsFollow
  <2>2. publication[r].step \notin {"COMPLETED"}
    BY <1>2 DEF Publishing
  <2>3. \A i \in Identities : i > 0
    BY LedgerAssumption
  <2>4. \A i \in Identities :
          Drafted(r, i) <=> /\ step \in {"reading", "inserting", "rereading"}
                            /\ i \in Candidates(r) /\ i <= publication[r].identity
    BY <1>2, <2>1, <2>3, LedgerAssumption DEF LedgerInv, DraftsFollow, Publishing
  <2> QED
    BY <1>2, <2>1, <2>2, <2>4, MoveLedger DEF Steps
<1>3. ASSUME NEW r \in Runs, CreateRun(r) PROVE LedgerInv'
  BY <1>2, <1>3 DEF CreateRun
<1>4. ASSUME NEW r \in Runs, BeginPublish(r) PROVE LedgerInv'
  BY <1>2, <1>4 DEF BeginPublish
<1>5. ASSUME NEW r \in Runs, ReadFinding(r) PROVE LedgerInv'
  BY <1>1, <1>2, <1>5 DEF ReadFinding, Publishing
<1>6. ASSUME NEW r \in Runs, InsertFinding(r) PROVE LedgerInv'
  <2>1. After(r, publication[r].identity) # {} /\ Publishing(r)
    BY <1>6 DEF InsertFinding, Publishing, LedgerInv, DraftsFollow
  <2>2. CASE HasActive(Current(r))
    BY <1>2, <1>6, <2>1, <2>2 DEF InsertFinding
  <2>3. CASE ~HasActive(Current(r))
    <3>1. ~HeldBeside(r, Current(r)) /\ Writes(r, Current(r), NewFinding(r, Current(r)))
      BY <1>6, <2>3 DEF InsertFinding
    <3>2. Current(r) \in Identities /\ Current(r) \in Candidates(r)
      BY <2>1, CurrentIsNext
    <3>3. /\ NewFinding(r, Current(r)) \in Finding /\ NewFinding(r, Current(r)).seen = {r}
          /\ Agrees(NewFinding(r, Current(r)), Current(r))
      BY <3>2, NewFindingAgrees DEF LedgerInv
    <3> QED
      BY <2>1, <2>3, <3>1, <3>3, WriteLedger
  <2> QED
    BY <2>2, <2>3
<1>7. ASSUME NEW r \in Runs, RereadFinding(r) PROVE LedgerInv'
  <2>1. After(r, publication[r].identity) # {} /\ Publishing(r)
    BY <1>7 DEF RereadFinding, Publishing, LedgerInv, DraftsFollow
  <2> QED
    BY <1>1, <1>7, <2>1, GiveBackLedger DEF RereadFinding
<1>8. ASSUME NEW r \in Runs, CommitPublication(r) PROVE LedgerInv'
  BY <1>8, CommitLedger
<1>9. ASSUME NEW r \in Runs, PublicationFails(r) PROVE LedgerInv'
  BY <1>9, GiveBackLedger DEF PublicationFails, Publishing
<1>10. ASSUME NEW i \in Identities, ReviewFinding(i) PROVE LedgerInv'
  BY <1>10, ReviewLedger DEF ReviewFinding, ActiveStatus
<1>11. ASSUME NEW i \in Identities, CloseFinding(i) PROVE LedgerInv'
  BY <1>11, ReviewLedger DEF CloseFinding
<1>12. ASSUME UNCHANGED ledgerVars PROVE LedgerInv'
  <2>1. UNCHANGED <<detected, ledger, draft, publication>>
    BY <1>12 DEF ledgerVars
  <2>2. LedgerTyped' /\ DraftsExtend' /\ DraftsFollow'
    BY <2>1 DEF LedgerInv, LedgerTyped, Drafted, DraftsExtend, HasActive, DraftsFollow,
                Publishing, After, Candidates, Severities
  <2>3. AllAgree'
    BY <2>1, SameCandidates DEF LedgerInv, AllAgree, Drafted
  <2>4. AllRecorded'
    BY <2>1 DEF LedgerInv, AllRecorded, RecordedOnce, Candidates, Severities
  <2> QED
    BY <2>2, <2>3, <2>4 DEF LedgerInv
<1> QED
  BY <1>3, <1>4, <1>5, <1>6, <1>7, <1>8, <1>9, <1>10, <1>11, <1>12 DEF LedgerNext

-----------------------------------------------------------------------------
(* Theorems *)

LEMMA LedgerInvAgrees == LedgerInv => LedgerAgrees
<1> SUFFICES ASSUME LedgerInv, NEW i \in Identities, NEW k \in DOMAIN ledger[i]
             PROVE  /\ ledger[i][k].count = Cardinality(ledger[i][k].seen)
                    /\ ledger[i][k].last = Max(ledger[i][k].seen)
                    /\ ledger[i][k].severity =
                         Max({MergedSeverity(r, i) : r \in ledger[i][k].seen})
  BY DEF LedgerAgrees
<1> DEFINE f == ledger[i][k]
           ranks == {MergedSeverity(r, i) : r \in f.seen}
<1>1. Agrees(f, i) /\ f \in Finding
  BY RowsTyped DEF LedgerInv, AllAgree
<1>2. f.seen \subseteq Nat /\ f.seen \subseteq Runs /\ SeverityRanks \subseteq Nat
  <2>1. f.seen \subseteq Runs
    BY <1>1 DEF Finding
  <2>2. Runs \subseteq Nat
    BY LedgerAssumption
  <2>3. SeverityRanks \subseteq Nat
    BY DEF SeverityRanks
  <2> HIDE DEF f
  <2> QED
    BY <2>1, <2>2, <2>3
<1>3. ranks \subseteq Nat
  BY <1>1, <1>2, SeverityIsRank DEF Agrees, LedgerInv
<1> QED
  BY <1>1, <1>2, <1>3, MaxIsGreatest DEF Agrees, Greatest

LEMMA LedgerInvRecorded == LedgerInv => DetectionsRecorded
<1> SUFFICES ASSUME LedgerInv, NEW r \in Runs, NEW i \in Identities
             PROVE  Cardinality({k \in DOMAIN ledger[i] : r \in ledger[i][k].seen}) =
                      IF publication[r].step = "COMPLETED" /\ i \in Candidates(r) THEN 1 ELSE 0
  BY DEF DetectionsRecorded
<1> DEFINE rows == {k \in DOMAIN ledger[i] : r \in ledger[i][k].seen}
<1>1. RecordedOnce(r, i)
  BY DEF LedgerInv, AllRecorded
<1>2. CASE publication[r].step = "COMPLETED" /\ i \in Candidates(r)
  <2>1. PICK k \in DOMAIN ledger[i] :
          \A j \in DOMAIN ledger[i] : r \in ledger[i][j].seen <=> j = k
    BY <1>1, <1>2 DEF RecordedOnce
  <2>2. rows = {k}
    BY <2>1
  <2>3. Cardinality({k}) = 1
    BY FS_Singleton
  <2> QED
    BY <1>2, <2>2, <2>3
<1>3. CASE ~(publication[r].step = "COMPLETED" /\ i \in Candidates(r))
  <2>1. rows = {}
    BY <1>1, <1>3 DEF RecordedOnce
  <2>2. Cardinality({}) = 0
    BY FS_EmptySet
  <2> QED
    BY <1>3, <2>1, <2>2
<1> QED
  BY <1>2, <1>3

\* LedgerAgrees in every reachable state: the columns of a finding are those of its
\* occurrences, however many runs publish at once and in whatever order (runs.py:321-331).
THEOREM LedgerCorrect == LedgerSpec => []LedgerAgrees
BY LedgerInvAgrees, InitLedger, NextLedger, PTL DEF LedgerSpec

\* DetectionsRecorded in every reachable state: a completed run has recorded each of its
\* candidates in one finding, and any other run has recorded nothing (runs.py:290-307).
THEOREM DetectionsCorrect == LedgerSpec => []DetectionsRecorded
BY LedgerInvRecorded, InitLedger, NextLedger, PTL DEF LedgerSpec

-----------------------------------------------------------------------------
(* Physical verification: results *)

LEMMA PriorityTypes ==
  /\ DOMAIN Priority = 1..8
  /\ Priority[1] = "UNREGISTERED_ASSET" /\ Priority[2] = "DUPLICATE_TAG"
  /\ Priority[3] = "ASSET_NOT_FOUND"
  /\ \A i \in 1..8 : Priority[i] \notin {"OTHER", "VERIFIED", "ABSENT"}
BY DEF Priority

\* The result is the one of the first type in the order of priority.
LEMMA SummaryIsFirst ==
  ASSUME NEW types, NEW i \in 1..8, Priority[i] \in types,
         \A j \in 1..8 : Priority[j] \in types => i <= j
  PROVE  Summary(types) = ResultOf(Priority[i])
<1> DEFINE ranks == {j \in DOMAIN Priority : Priority[j] \in types}
<1>1. i \in ranks /\ \A j \in ranks : i <= j
  BY PriorityTypes
<1>2. ranks \subseteq 1..8
  BY PriorityTypes
<1> HIDE DEF ranks
<1>3. (CHOOSE k \in ranks : \A j \in ranks : k <= j) = i
  <2>1. \A k \in ranks : (\A j \in ranks : k <= j) => k = i
    BY <1>1, <1>2
  <2> QED
    BY <1>1, <2>1
<1>4. ranks # {}
  BY <1>1
<1> QED
  BY <1>3, <1>4 DEF Summary, ranks

LEMMA SummaryFindsFirst ==
  ASSUME NEW types, NEW k \in 1..8, Priority[k] \in types
  PROVE  \E i \in 1..8 : Priority[i] \in types /\ Summary(types) = ResultOf(Priority[i])
<1> DEFINE S == {i \in 1..8 : Priority[i] \in types}
<1>1. S \in SUBSET Nat /\ S # {}
  OBVIOUS
<1>2. PICK i \in S : \A j \in S : i <= j
  BY <1>1, LeastExists
<1> QED
  BY <1>2, SummaryIsFirst

\* A summary is never ABSENT, and VERIFIED only of nothing.
LEMMA SummaryTells ==
  ASSUME NEW types
  PROVE  Summary(types) # "ABSENT" /\ (Summary(types) = "VERIFIED" <=> types = {})
<1>1. CASE \E k \in 1..8 : Priority[k] \in types
  BY <1>1, SummaryFindsFirst, PriorityTypes DEF ResultOf
<1>2. CASE ~\E k \in 1..8 : Priority[k] \in types
  BY <1>2, PriorityTypes DEF Summary
<1> QED
  BY <1>1, <1>2

\* A manual exception decides the result only where there is no other.
LEMMA SummaryWithOther ==
  ASSUME NEW types
  PROVE  Summary(types \cup {"OTHER"}) =
           IF Summary(types) = "VERIFIED" THEN "OTHER_EXCEPTION" ELSE Summary(types)
<1> DEFINE ranks == {i \in DOMAIN Priority : Priority[i] \in types}
           more == {i \in DOMAIN Priority : Priority[i] \in types \cup {"OTHER"}}
           First(S) == ResultOf(Priority[CHOOSE i \in S : \A j \in S : i <= j])
<1>1. /\ Summary(types) = IF ranks # {} THEN First(ranks)
                          ELSE IF types # {} THEN "OTHER_EXCEPTION" ELSE "VERIFIED"
      /\ Summary(types \cup {"OTHER"}) = IF more # {} THEN First(more) ELSE "OTHER_EXCEPTION"
  BY DEF Summary
<1>2. more = ranks
  BY PriorityTypes
<1>3. ranks # {} => types # {}
  OBVIOUS
<1> HIDE DEF ranks, more, First
<1> QED
  BY <1>1, <1>2, <1>3, SummaryTells

LEMMA SummaryOfDuplicate ==
  ASSUME NEW types, "DUPLICATE_TAG" \in types, "UNREGISTERED_ASSET" \notin types
  PROVE  Summary(types) = "DUPLICATE_TAG"
<1>1. \A j \in 1..8 : Priority[j] \in types => 2 <= j
  BY PriorityTypes
<1> QED
  BY <1>1, SummaryIsFirst, PriorityTypes DEF ResultOf

LEMMA SummaryOfMissing == Summary({"ASSET_NOT_FOUND"}) = "ASSET_NOT_FOUND"
<1>1. \A j \in 1..8 : Priority[j] \in {"ASSET_NOT_FOUND"} => 3 <= j
  BY PriorityTypes
<1> QED
  BY <1>1, SummaryIsFirst, PriorityTypes DEF ResultOf

-----------------------------------------------------------------------------
(* Verification: the inductive invariant *)

\* Rows are records; a verification that is not recorded has raised nothing; only items are
\* unregistered.
VerificationShape ==
  /\ DOMAIN verification = Records
  /\ \A v \in Records :
       verification[v] = [result |-> verification[v].result, tag |-> verification[v].tag]

UnrecordedIsClean == \A v \in Records : ~Recorded(v) => Raised(v) = {}

UnregisteredIsItem ==
  \A v \in Records : "UNREGISTERED_ASSET" \in Raised(v) => v[2] \notin Assets

VerificationInv ==
  /\ VerificationTypeOK /\ VerificationShape /\ UnrecordedIsClean /\ UnregisteredIsItem
  /\ ResultsSummarizeExceptions

LEMMA InitVerification == Init => VerificationInv
<1> SUFFICES ASSUME Init PROVE VerificationInv
  OBVIOUS
<1>1. workload.rows \subseteq RegisterRows /\ workload.scopes \subseteq Scopes
  BY WorkloadsAssumption DEF Init
<1>2. \A v \in Records : ~Recorded(v) /\ Raised(v) = {}
  BY DEF Init, VerificationInit, Recorded, Raised
<1>3. VerificationTypeOK
  <2>1. register \in [Assets -> RegisterRows]
    BY <1>1 DEF Init, VerificationInit
  <2>2. campaign \in [Campaigns -> [status : CampaignStatus, scope : Scopes]]
    <3>1. PICK scope \in [Campaigns -> workload.scopes] :
            campaign = [c \in Campaigns |->
                          [status |-> IF c \in workload.completed THEN "COMPLETED" ELSE "ABSENT",
                           scope |-> scope[c]]]
      BY DEF Init, VerificationInit
    <3> QED
      BY <1>1, <3>1 DEF CampaignStatus
  <2>3. exception \in [Records -> [ExceptionType -> ExceptionStatus \cup {"NONE"}]]
    BY DEF Init, VerificationInit
  <2> QED
    BY <2>1, <2>2, <2>3 DEF VerificationTypeOK
<1>4. VerificationShape
  BY DEF Init, VerificationInit, VerificationShape
<1> QED
  BY <1>2, <1>3, <1>4 DEF VerificationInv, UnrecordedIsClean, UnregisteredIsItem,
                          ResultsSummarizeExceptions

-----------------------------------------------------------------------------
(* Verification: every step keeps the invariant *)

\* Steps that record nothing and raise nothing: the register, the campaigns, review.
LEMMA QuietVerification ==
  ASSUME VerificationInv, VerificationTypeOK', UNCHANGED verification,
         \A v \in Records : Raised(v)' = Raised(v)
  PROVE  VerificationInv'
<1>1. \A v \in Records : Recorded(v)' <=> Recorded(v)
  BY DEF Recorded
<1>2. \A v \in Records : SameTag(v[1], v[2], verification[v].tag)' =
                           SameTag(v[1], v[2], verification[v].tag)
  BY DEF SameTag, Recorded
<1>3. VerificationShape' /\ UnrecordedIsClean' /\ UnregisteredIsItem'
  BY <1>1 DEF VerificationInv, VerificationShape, UnrecordedIsClean, UnregisteredIsItem
<1>4. ResultsSummarizeExceptions'
  BY <1>1, <1>2 DEF VerificationInv, ResultsSummarizeExceptions
<1> QED
  BY <1>3, <1>4 DEF VerificationInv

LEMMA CampaignVerification ==
  ASSUME VerificationInv, VerificationTypeOK', UNCHANGED <<verification, exception>>
  PROVE  VerificationInv'
BY QuietVerification DEF Raised

LEMMA ReviewVerification ==
  ASSUME VerificationInv, NEW v \in Records, NEW t \in ExceptionType,
         NEW status \in ExceptionStatus, ReviewException(v, t, status)
  PROVE  VerificationInv'
<1>1. /\ exception' = [exception EXCEPT ![v][t] = status] /\ exception[v][t] # "NONE"
      /\ UNCHANGED <<register, campaign, verification>>
  BY DEF ReviewException
<1>2. exception \in [Records -> [ExceptionType -> ExceptionStatus \cup {"NONE"}]]
  BY DEF VerificationInv, VerificationTypeOK
<1>3. VerificationTypeOK'
  BY <1>1, <1>2 DEF VerificationInv, VerificationTypeOK
<1>4. status # "NONE"
  BY DEF ExceptionStatus
<1>5. ASSUME NEW u \in Records PROVE Raised(u)' = Raised(u)
  <2>1. \A x \in ExceptionType : exception'[u][x] = "NONE" <=> exception[u][x] = "NONE"
    BY <1>1, <1>2, <1>4
  <2> QED
    BY <2>1 DEF Raised
<1> QED
  BY <1>1, <1>3, <1>5, QuietVerification

\* What a verification with the types of an exception added has raised.
LEMMA RaiseAdds ==
  ASSUME VerificationInv, NEW v \in Records, NEW types \in SUBSET ExceptionType
  PROVE  /\ Raise(v, types) \in [ExceptionType -> ExceptionStatus \cup {"NONE"}]
         /\ {t \in ExceptionType : Raise(v, types)[t] # "NONE"} = Raised(v) \cup types
<1>1. exception[v] \in [ExceptionType -> ExceptionStatus \cup {"NONE"}]
  BY DEF VerificationInv, VerificationTypeOK
<1> QED
  BY <1>1 DEF Raise, Raised, ExceptionStatus

LEMMA ManualVerification ==
  ASSUME VerificationInv, NEW v \in Records, CreateManualException(v)
  PROVE  VerificationInv'
<1> DEFINE row == [verification[v] EXCEPT !.result =
                      IF @ = "VERIFIED" THEN "OTHER_EXCEPTION" ELSE @]
<1>1. /\ exception' = [exception EXCEPT ![v] = Raise(v, {"OTHER"})]
      /\ verification' = [verification EXCEPT ![v] = row]
      /\ UNCHANGED <<register, campaign>> /\ Recorded(v)
  BY DEF CreateManualException
<1>2. {"OTHER"} \in SUBSET ExceptionType
  BY DEF ExceptionType
<1>3. /\ DOMAIN exception = Records /\ DOMAIN verification = Records
      /\ verification[v] = [result |-> verification[v].result, tag |-> verification[v].tag]
  BY DEF VerificationInv, VerificationTypeOK, VerificationShape
<1>4. /\ row = [result |-> IF verification[v].result = "VERIFIED" THEN "OTHER_EXCEPTION"
                           ELSE verification[v].result,
                tag |-> verification[v].tag]
  BY <1>3
<1> HIDE DEF row
<1>5. /\ exception'[v] = Raise(v, {"OTHER"}) /\ verification'[v] = row
      /\ \A u \in Records \ {v} : exception'[u] = exception[u] /\ verification'[u] = verification[u]
      /\ DOMAIN verification' = Records
  BY <1>1, <1>3
<1>6. Raised(v)' = Raised(v) \cup {"OTHER"} /\ \A u \in Records \ {v} : Raised(u)' = Raised(u)
  BY <1>2, <1>5, RaiseAdds DEF Raised
<1>7. /\ row.tag = verification[v].tag /\ row.result # "ABSENT"
      /\ \A u \in Records : verification'[u].tag = verification[u].tag
      /\ \A u \in Records : Recorded(u)' <=> Recorded(u)
  BY <1>1, <1>4, <1>5 DEF Recorded
<1>8. VerificationTypeOK'
  BY <1>1, <1>2, RaiseAdds DEF VerificationInv, VerificationTypeOK
<1>9. VerificationShape'
  BY <1>4, <1>5 DEF VerificationInv, VerificationShape
<1>10. UnrecordedIsClean' /\ UnregisteredIsItem'
  BY <1>1, <1>6, <1>7 DEF VerificationInv, UnrecordedIsClean, UnregisteredIsItem
<1>11. ResultsSummarizeExceptions'
  <2>1. ASSUME NEW u \in Records, Recorded(u)' PROVE verification'[u].result = Summary(Raised(u)')
    <3>1. verification[u].result = Summary(Raised(u))
      BY <1>7, <2>1 DEF VerificationInv, ResultsSummarizeExceptions
    <3>2. CASE u = v
      BY <1>4, <1>5, <1>6, <3>1, <3>2, SummaryWithOther
    <3>3. CASE u # v
      BY <1>5, <1>6, <3>1, <3>3
    <3> QED
      BY <3>2, <3>3
  <2>2. \A u \in Records : SameTag(u[1], u[2], verification[u].tag)' =
                             SameTag(u[1], u[2], verification[u].tag)
    <3> SUFFICES ASSUME NEW u \in Records
                 PROVE  SameTag(u[1], u[2], verification[u].tag)' =
                          SameTag(u[1], u[2], verification[u].tag)
      OBVIOUS
    <3>1. {u[1]} \X (Subjects \ {u[2]}) \subseteq Records
      BY DEF Records
    <3> QED
      BY <1>7, <3>1 DEF SameTag
  <2> QED
    BY <1>6, <1>7, <2>1, <2>2 DEF VerificationInv, ResultsSummarizeExceptions
<1> QED
  BY <1>8, <1>9, <1>10, <1>11 DEF VerificationInv

\* Two verifications have the same tag when they are of one campaign and both show it.
LEMMA SameTagMeans ==
  ASSUME NEW v \in Records, NEW tag
  PROVE  \A u : u \in SameTag(v[1], v[2], tag) <=>
                  /\ u \in Records /\ u[1] = v[1] /\ u # v
                  /\ Recorded(u) /\ tag # Nothing /\ verification[u].tag # Nothing
                  /\ Folded[verification[u].tag] = Folded[tag]
<1> DEFINE others == {v[1]} \X (Subjects \ {v[2]})
<1>1. others = {u \in Records : u[1] = v[1] /\ u # v}
  <2>1. v = <<v[1], v[2]>> /\ v[1] \in Campaigns
    BY DEF Records
  <2>2. ASSUME NEW u \in others PROVE u \in Records /\ u[1] = v[1] /\ u # v
    BY <2>1 DEF Records
  <2>3. ASSUME NEW u \in Records, u[1] = v[1], u # v PROVE u \in others
    <3>1. u = <<u[1], u[2]>> /\ u[2] \in Subjects
      BY DEF Records
    <3> QED
      BY <2>1, <2>3, <3>1
  <2> QED
    BY <2>2, <2>3
<1>2. SameTag(v[1], v[2], tag) =
        {u \in others : /\ Recorded(u) /\ tag # Nothing /\ verification[u].tag # Nothing
                        /\ Folded[verification[u].tag] = Folded[tag]}
  BY DEF SameTag
<1> HIDE DEF others
<1> QED
  BY <1>1, <1>2

LEMMA MissingVerification ==
  ASSUME VerificationInv, NEW c \in Campaigns, ReconcileMissing(c)
  PROVE  VerificationInv'
<1> DEFINE missing == {<<c, a>> : a \in {b \in Expected(c) : ~Recorded(<<c, b>>)}}
           new == [result |-> "ASSET_NOT_FOUND", tag |-> Nothing]
<1>1. /\ verification' = [v \in Records |-> IF v \in missing THEN new ELSE verification[v]]
      /\ exception' = [v \in Records |->
            IF v \in missing THEN Raise(v, {"ASSET_NOT_FOUND"}) ELSE exception[v]]
      /\ UNCHANGED <<register, campaign>>
  BY DEF ReconcileMissing
<1>2. \A v \in missing : v \in Records /\ ~Recorded(v) /\ v[2] \in Assets
  <2> SUFFICES ASSUME NEW v \in missing PROVE v \in Records /\ ~Recorded(v) /\ v[2] \in Assets
    OBVIOUS
  <2>1. PICK a \in Expected(c) : v = <<c, a>> /\ ~Recorded(<<c, a>>)
    OBVIOUS
  <2>2. a \in Assets
    BY DEF Expected
  <2> QED
    BY <2>1, <2>2 DEF Records, Subjects
<1> HIDE DEF missing
<1>3. {"ASSET_NOT_FOUND"} \in SUBSET ExceptionType
  BY DEF ExceptionType
<1>4. \A v \in missing : Raised(v)' = {"ASSET_NOT_FOUND"}
  BY <1>1, <1>2, <1>3, RaiseAdds DEF VerificationInv, UnrecordedIsClean, Raised
<1>5. \A v \in Records \ missing : Raised(v)' = Raised(v) /\ verification'[v] = verification[v]
  BY <1>1 DEF Raised
<1>6. \A v \in missing : verification'[v] = new
  BY <1>1, <1>2
<1>7. VerificationTypeOK'
  <2>1. \A v \in Records : exception'[v] \in [ExceptionType -> ExceptionStatus \cup {"NONE"}]
    BY <1>1, <1>3, RaiseAdds DEF VerificationInv, VerificationTypeOK
  <2> QED
    BY <1>1, <2>1 DEF VerificationInv, VerificationTypeOK
<1>8. VerificationShape'
  BY <1>1, <1>5, <1>6 DEF VerificationInv, VerificationShape
<1>9. UnrecordedIsClean' /\ UnregisteredIsItem'
  <2>1. \A v \in missing : Recorded(v)' /\ "UNREGISTERED_ASSET" \notin Raised(v)'
    BY <1>4, <1>6 DEF Recorded
  <2>2. \A v \in Records \ missing : Recorded(v)' <=> Recorded(v)
    BY <1>5 DEF Recorded
  <2> QED
    BY <1>5, <2>1, <2>2 DEF VerificationInv, UnrecordedIsClean, UnregisteredIsItem
<1>10. ResultsSummarizeExceptions'
  <2> SUFFICES ASSUME NEW v \in Records, Recorded(v)'
               PROVE  (/\ verification[v].result = Summary(Raised(v))
                       /\ SameTag(v[1], v[2], verification[v].tag) # {}
                            => "DUPLICATE_TAG" \in Raised(v))'
    BY DEF ResultsSummarizeExceptions
  <2>1. CASE v \in missing
    <3>1. SameTag(v[1], v[2], verification[v].tag)' = {}
      BY <1>6, <2>1 DEF SameTag
    <3> QED
      BY <1>4, <1>6, <2>1, <3>1, SummaryOfMissing
  <2>2. CASE v \notin missing
    <3>1. Recorded(v) /\ verification'[v] = verification[v] /\ Raised(v)' = Raised(v)
      BY <1>5, <2>2 DEF Recorded
    <3>2. SameTag(v[1], v[2], verification[v].tag)' = SameTag(v[1], v[2], verification[v].tag)
      <4>1. \A u \in {v[1]} \X (Subjects \ {v[2]}) :
              \/ u \in missing /\ verification'[u].tag = Nothing /\ ~Recorded(u)
              \/ verification'[u] = verification[u] /\ (Recorded(u)' <=> Recorded(u))
        BY <1>2, <1>5, <1>6 DEF Records, Recorded
      <4> QED
        BY <3>1, <4>1 DEF SameTag
    <3> QED
      BY <3>1, <3>2 DEF VerificationInv, ResultsSummarizeExceptions
  <2> QED
    BY <2>1, <2>2
<1> QED
  BY <1>7, <1>8, <1>9, <1>10 DEF VerificationInv

\* What an observation changes: its own record v, and the earlier ones of its tag, D.
ObservationWrites(c, s, v, tag, types, D) ==
  /\ v \in Records /\ ~Recorded(v) /\ types \in SUBSET ExceptionType
  /\ D = SameTag(c, s, tag)
  /\ D # {} => "DUPLICATE_TAG" \in types
  /\ "UNREGISTERED_ASSET" \in types => s \notin Assets
  /\ D \subseteq Records /\ v \notin D /\ \A d \in D : d[2] \in Assets /\ Recorded(d)
  /\ campaign[c].status \in Accepting
  /\ campaign' = [campaign EXCEPT ![c].status = "IN_PROGRESS"]
  /\ UNCHANGED register
  /\ DOMAIN verification' = Records /\ DOMAIN exception' = Records
  /\ verification'[v] = [result |-> Summary(types), tag |-> tag]
  /\ exception'[v] = Raise(v, types)
  /\ \A d \in D : /\ verification'[d] = Flagged(d)
                  /\ exception'[d] = IF "DUPLICATE_TAG" \in Raised(d) THEN exception[d]
                                     ELSE Raise(d, {"DUPLICATE_TAG"})
  /\ \A u \in Records \ (D \cup {v}) :
       verification'[u] = verification[u] /\ exception'[u] = exception[u]

LEMMA CreateEffect ==
  ASSUME VerificationInv, NEW c \in Campaigns, NEW s \in Subjects, NEW reported,
         CreateVerification(c, s, reported)
  PROVE  \E tag, types, D : ObservationWrites(c, s, <<c, s>>, tag, types, D)
<1> DEFINE v == <<c, s>>
           o == Placed(c, s, reported)
           D == SameTag(c, s, o.tag)
           types == Detected(s, o) \cup (IF D # {} THEN {"DUPLICATE_TAG"} ELSE {})
<1>1. /\ campaign[c].status \in Accepting /\ ~Recorded(v)
      /\ \A d \in D : d[2] \in Assets
      /\ verification' = [u \in Records |->
            IF u = v THEN [result |-> Summary(types), tag |-> o.tag]
            ELSE IF u \in D THEN Flagged(u) ELSE verification[u]]
      /\ exception' = [u \in Records |->
            IF u = v THEN Raise(u, types)
            ELSE IF u \in D /\ "DUPLICATE_TAG" \notin Raised(u)
                 THEN Raise(u, {"DUPLICATE_TAG"}) ELSE exception[u]]
      /\ campaign' = [campaign EXCEPT ![c].status = "IN_PROGRESS"]
      /\ UNCHANGED register
  BY DEF CreateVerification, SetStatus
<1>2. v \in Records
  BY DEF Records
<1>3. D \subseteq Records /\ v \notin D /\ \A d \in D : Recorded(d)
  BY DEF SameTag, Records
<1>4. types \in SUBSET ExceptionType /\ (D # {} => "DUPLICATE_TAG" \in types)
  BY DEF Detected, Mismatches, ExceptionType
<1>5. "UNREGISTERED_ASSET" \in types => s \notin Assets
  BY DEF Detected, Mismatches
<1> DEFINE tag == o.tag
<1>6. D = SameTag(c, s, tag)
  OBVIOUS
<1> HIDE DEF v, D, types, o
<1>7. /\ DOMAIN verification' = Records /\ DOMAIN exception' = Records
      /\ verification'[v] = [result |-> Summary(types), tag |-> tag]
      /\ exception'[v] = Raise(v, types)
      /\ \A d \in D : /\ verification'[d] = Flagged(d)
                      /\ exception'[d] = IF "DUPLICATE_TAG" \in Raised(d) THEN exception[d]
                                         ELSE Raise(d, {"DUPLICATE_TAG"})
      /\ \A u \in Records \ (D \cup {v}) :
           verification'[u] = verification[u] /\ exception'[u] = exception[u]
  BY <1>1, <1>2, <1>3
<1> HIDE DEF tag
<1>8. ObservationWrites(c, s, v, tag, types, D)
  BY <1>1, <1>2, <1>3, <1>4, <1>5, <1>6, <1>7 DEF ObservationWrites
<1> QED
  BY <1>8 DEF v

LEMMA CreateKeepsVerification ==
  ASSUME VerificationInv, NEW c \in Campaigns, NEW s \in Subjects, NEW reported,
         CreateVerification(c, s, reported)
  PROVE  VerificationInv'
<1> DEFINE v == <<c, s>>
<1>1. PICK tag, types, D : ObservationWrites(c, s, v, tag, types, D)
  BY CreateEffect
<1> USE DEF ObservationWrites
<1>2. v[1] = c /\ v[2] = s
  OBVIOUS
<1> HIDE DEF v
<1>3. {"DUPLICATE_TAG"} \in SUBSET ExceptionType
  BY DEF ExceptionType
\* who has raised what
<1>4. Raised(v)' = types
  <2>1. Raised(v)' = Raised(v) \cup types
    BY <1>1, RaiseAdds DEF Raised
  <2> QED
    BY <1>1, <2>1 DEF VerificationInv, UnrecordedIsClean
<1>5. \A d \in D : Raised(d)' = Raised(d) \cup {"DUPLICATE_TAG"}
  <2> SUFFICES ASSUME NEW d \in D PROVE Raised(d)' = Raised(d) \cup {"DUPLICATE_TAG"}
    OBVIOUS
  <2>1. d \in Records
    BY <1>1
  <2>2. CASE "DUPLICATE_TAG" \in Raised(d)
    <3>1. Raised(d)' = Raised(d)
      BY <1>1, <2>2 DEF Raised
    <3> QED
      BY <2>2, <3>1
  <2>3. CASE "DUPLICATE_TAG" \notin Raised(d)
    <3>1. exception'[d] = Raise(d, {"DUPLICATE_TAG"})
      BY <1>1, <2>3
    <3> QED
      BY <1>3, <2>1, <3>1, RaiseAdds DEF Raised
  <2> QED
    BY <2>2, <2>3
<1>6. \A u \in Records \ (D \cup {v}) : Raised(u)' = Raised(u)
  BY <1>1 DEF Raised
\* what the rows show
<1> DEFINE IsRow(u) ==
        verification'[u] = [result |-> verification'[u].result, tag |-> verification'[u].tag]
<1>7. \A d \in D : /\ verification'[d].result = "DUPLICATE_TAG"
                   /\ verification'[d].tag = verification[d].tag
                   /\ IsRow(d)
  <2> SUFFICES ASSUME NEW d \in D
               PROVE  /\ verification'[d].result = "DUPLICATE_TAG"
                      /\ verification'[d].tag = verification[d].tag
                      /\ IsRow(d)
    OBVIOUS
  <2>1. verification[d] = [result |-> verification[d].result, tag |-> verification[d].tag]
    BY <1>1 DEF VerificationInv, VerificationShape
  <2>2. verification'[d] = [verification[d] EXCEPT !.result = "DUPLICATE_TAG"]
    BY <1>1 DEF Flagged
  <2> DEFINE old == verification[d]
             new == verification'[d]
  <2>3. old = [result |-> old.result, tag |-> old.tag]
        /\ new = [old EXCEPT !.result = "DUPLICATE_TAG"]
    BY <2>1, <2>2
  <2> HIDE DEF old, new
  <2>4. new.result = "DUPLICATE_TAG" /\ new.tag = old.tag
        /\ new = [result |-> new.result, tag |-> new.tag]
    BY <2>3
  <2> QED
    BY <2>4 DEF old, new
<1>8. /\ \A u \in Records \ {v} : verification'[u].tag = verification[u].tag
      /\ \A u \in Records \ {v} : Recorded(u)' <=> Recorded(u)
      /\ Recorded(v)'
  <2>1. Recorded(v)'
    BY <1>1, SummaryTells DEF Recorded
  <2>2. \A d \in D : Recorded(d)' /\ Recorded(d) /\ verification'[d].tag = verification[d].tag
    <3>1. \A d \in D : Recorded(d)'
      BY <1>7 DEF Recorded
    <3> QED
      BY <1>1, <1>7, <3>1
  <2>3. \A u \in Records \ (D \cup {v}) :
          /\ Recorded(u)' <=> Recorded(u) /\ verification'[u].tag = verification[u].tag
          /\ verification'[u].tag = verification[u].tag
    BY <1>1 DEF Recorded
  <2>4. \A u \in Records \ (D \cup {v}) : Recorded(u)' <=> Recorded(u)
    BY <1>1 DEF Recorded
  <2> QED
    BY <2>1, <2>2, <2>3, <2>4
<1>9. VerificationTypeOK'
  <2>1. \A u \in Records : exception'[u] \in [ExceptionType -> ExceptionStatus \cup {"NONE"}]
    <3>1. exception \in [Records -> [ExceptionType -> ExceptionStatus \cup {"NONE"}]]
      BY DEF VerificationInv, VerificationTypeOK
    <3>2. \A u \in Records : exception[u] \in [ExceptionType -> ExceptionStatus \cup {"NONE"}]
      BY <3>1
    <3>3. \A d \in D : exception'[d] \in [ExceptionType -> ExceptionStatus \cup {"NONE"}]
      BY <1>1, <1>3, <3>2, RaiseAdds
    <3>4. exception'[v] \in [ExceptionType -> ExceptionStatus \cup {"NONE"}]
      BY <1>1, RaiseAdds
    <3> QED
      BY <1>1, <3>2, <3>3, <3>4
  <2>2. exception' = [u \in Records |-> exception'[u]]
    BY DEF CreateVerification
  <2>3. campaign' \in [Campaigns -> [status : CampaignStatus, scope : Scopes]]
    BY <1>1 DEF VerificationInv, VerificationTypeOK, CampaignStatus
  <2> QED
    BY <1>1, <2>1, <2>2, <2>3 DEF VerificationInv, VerificationTypeOK
<1>10. VerificationShape'
  <2>1. IsRow(v)
    BY <1>1
  <2>2. \A d \in D : IsRow(d)
    BY <1>7
  <2>3. \A u \in Records \ (D \cup {v}) : IsRow(u)
    BY <1>1 DEF VerificationInv, VerificationShape
  <2> QED
    BY <1>1, <2>1, <2>2, <2>3 DEF VerificationShape
<1>11. UnrecordedIsClean'
  <2>1. \A u \in Records : ~Recorded(u)' => u \notin D \cup {v} /\ ~Recorded(u)
    BY <1>1, <1>8
  <2> QED
    BY <1>6, <2>1 DEF VerificationInv, UnrecordedIsClean
<1>12. UnregisteredIsItem'
  <2>1. \A u \in Records \ {v} :
          "UNREGISTERED_ASSET" \in Raised(u)' => "UNREGISTERED_ASSET" \in Raised(u)
    BY <1>5, <1>6
  <2> QED
    BY <1>1, <1>2, <1>4, <2>1 DEF VerificationInv, UnregisteredIsItem
<1>13. ResultsSummarizeExceptions'
  <2>1. ASSUME NEW u \in Records, Recorded(u)'
        PROVE  verification'[u].result = Summary(Raised(u)')
    <3>1. CASE u = v
      BY <1>1, <1>4, <3>1
    <3>2. CASE u \in D
      <4>1. "UNREGISTERED_ASSET" \notin Raised(u)'
        BY <1>1, <1>5, <3>2 DEF VerificationInv, UnregisteredIsItem
      <4>2. "DUPLICATE_TAG" \in Raised(u)'
        BY <1>5, <3>2
      <4>3. verification'[u].result = "DUPLICATE_TAG"
        BY <1>7, <3>2
      <4> QED
        BY <4>1, <4>2, <4>3, SummaryOfDuplicate
    <3>3. CASE u \notin D \cup {v}
      <4>1. Recorded(u) /\ verification'[u] = verification[u] /\ Raised(u)' = Raised(u)
        BY <1>1, <1>6, <1>8, <2>1, <3>3
      <4> QED
        BY <4>1 DEF VerificationInv, ResultsSummarizeExceptions
    <3> QED
      BY <3>1, <3>2, <3>3
  \* an earlier record that shows the new one's tag is among those that are flagged
  <2>2. ASSUME NEW u \in Records, Recorded(u)',
               NEW w \in SameTag(u[1], u[2], verification[u].tag)'
        PROVE  "DUPLICATE_TAG" \in Raised(u)'
    <3>1. /\ w \in Records /\ w[1] = u[1] /\ w # u /\ Recorded(w)'
          /\ verification'[u].tag # Nothing /\ verification'[w].tag # Nothing
          /\ Folded[verification'[w].tag] = Folded[verification'[u].tag]
      <4>1. w \in {u[1]} \X (Subjects \ {u[2]})
        BY <2>2 DEF SameTag
      <4>2. w \in Records /\ w[1] = u[1] /\ w # u
        BY <4>1 DEF Records
      <4> QED
        BY <2>2, <4>2 DEF SameTag
    <3>2. \A x : x \in D <=> /\ x \in Records /\ x[1] = v[1] /\ x # v
                             /\ Recorded(x) /\ tag # Nothing /\ verification[x].tag # Nothing
                             /\ Folded[verification[x].tag] = Folded[tag]
      <4>1. D = SameTag(v[1], v[2], tag)
        BY <1>1, <1>2
      <4> QED
        BY <1>1, <4>1, SameTagMeans
    <3>3. verification'[v].tag = tag
      BY <1>1
    <3>4. CASE u = v
      <4>1. w \in D
        BY <1>8, <3>1, <3>2, <3>3, <3>4
      <4> QED
        BY <1>1, <1>4, <3>4, <4>1
    <3>5. CASE u # v /\ w = v
      <4>1. u \in D
        BY <1>8, <2>2, <3>1, <3>2, <3>3, <3>5
      <4> QED
        BY <1>5, <4>1
    <3>6. CASE u # v /\ w # v
      <4>1. w \in SameTag(u[1], u[2], verification[u].tag) /\ Recorded(u)
        BY <1>8, <2>2, <3>1, <3>6, SameTagMeans
      <4>2. "DUPLICATE_TAG" \in Raised(u)
        BY <4>1 DEF VerificationInv, ResultsSummarizeExceptions
      <4> QED
        BY <1>5, <1>6, <3>6, <4>2
    <3> QED
      BY <3>4, <3>5, <3>6
  <2> QED
    BY <2>1, <2>2 DEF ResultsSummarizeExceptions
<1> QED
  BY <1>9, <1>10, <1>11, <1>12, <1>13 DEF VerificationInv

LEMMA NextVerification ==
  ASSUME VerificationInv, NEW scopes \in SUBSET Scopes, NEW observations,
         VerificationNext(scopes, observations)
  PROVE  VerificationInv'
<1> USE DEF VerificationInv
<1>1. ASSUME NEW a \in Assets, ChangeRegister(a) PROVE VerificationInv'
  <2>1. VerificationTypeOK'
    BY <1>1 DEF ChangeRegister, VerificationTypeOK
  <2> QED
    BY <1>1, <2>1, CampaignVerification DEF ChangeRegister
<1>2. ASSUME NEW c \in Campaigns, NEW status \in CampaignStatus, SetStatus(c, status),
             UNCHANGED <<register, verification, exception>>
      PROVE  VerificationInv'
  <2>1. VerificationTypeOK'
    BY <1>2 DEF SetStatus, VerificationTypeOK
  <2> QED
    BY <1>2, <2>1, CampaignVerification
<1>3. ASSUME NEW c \in Campaigns,
             CreateCampaign(c) \/ StartCampaign(c) \/ CompleteCampaign(c) \/ CancelCampaign(c)
      PROVE  VerificationInv'
  BY <1>2, <1>3 DEF CreateCampaign, StartCampaign, CompleteCampaign, CancelCampaign,
                    CampaignStatus
<1>4. ASSUME NEW c \in Campaigns, NEW scope \in scopes, UpdateCampaign(c, scope)
      PROVE  VerificationInv'
  <2>1. VerificationTypeOK'
    BY <1>4 DEF UpdateCampaign, VerificationTypeOK
  <2> QED
    BY <1>4, <2>1, CampaignVerification DEF UpdateCampaign
<1>5. ASSUME NEW c \in Campaigns, NEW s \in Subjects, NEW o \in observations,
             CreateVerification(c, s, o)
      PROVE  VerificationInv'
  BY <1>5, CreateKeepsVerification
<1>6. ASSUME NEW c \in Campaigns, ReconcileMissing(c) PROVE VerificationInv'
  BY <1>6, MissingVerification
<1>7. ASSUME NEW v \in Records, CreateManualException(v) PROVE VerificationInv'
  BY <1>7, ManualVerification
<1>8. ASSUME NEW v \in Records, NEW t \in ExceptionType, NEW status \in ExceptionStatus,
             ReviewException(v, t, status)
      PROVE  VerificationInv'
  BY <1>8, ReviewVerification
<1> QED
  BY <1>1, <1>3, <1>4, <1>5, <1>6, <1>7, <1>8 DEF VerificationNext

LEMMA StutterVerification ==
  ASSUME VerificationInv, UNCHANGED verificationVars
  PROVE  VerificationInv'
<1>1. UNCHANGED <<register, campaign, verification, exception>>
  BY DEF verificationVars
<1>2. VerificationTypeOK'
  BY <1>1 DEF VerificationInv, VerificationTypeOK
<1> QED
  BY <1>1, <1>2, CampaignVerification

-----------------------------------------------------------------------------
(* Verification: what is closed *)

Over(c) == campaign[c].status \in {"COMPLETED", "CANCELLED"}

\* What a step may not do to a campaign that is over, or to a closed exception.
ClosedStays ==
  /\ \A v \in Records : campaign[v[1]].status \in {"COMPLETED", "CANCELLED"} =>
       /\ verification'[v] = verification[v]
       /\ \A t \in ExceptionType : exception[v][t] = "NONE" => exception'[v][t] = "NONE"
  /\ \A v \in Records, t \in ExceptionType :
       exception[v][t] \in {"RESOLVED", "ACCEPTED", "REJECTED"}
         => exception'[v][t] = exception[v][t]

\* A row that raises only types it has not raised leaves its closed exceptions alone.
LEMMA RaiseKeeps ==
  ASSUME NEW v \in Records, NEW types \in SUBSET ExceptionType, types \cap Raised(v) = {}
  PROVE  \A t \in ExceptionType : exception[v][t] \in {"RESOLVED", "ACCEPTED", "REJECTED"}
           => Raise(v, types)[t] = exception[v][t]
BY DEF Raised, Raise

LEMMA CreateKeepsClosed ==
  ASSUME VerificationInv, NEW c \in Campaigns, NEW s \in Subjects, NEW reported,
         CreateVerification(c, s, reported)
  PROVE  ClosedStays
<1> DEFINE v == <<c, s>>
<1>1. PICK tag, types, D : ObservationWrites(c, s, v, tag, types, D)
  BY CreateEffect
<1> USE DEF ObservationWrites
<1>2. v[1] = c /\ \A d \in D : d[1] = c
  BY <1>1 DEF SameTag
<1> HIDE DEF v
<1>3. \A u \in D \cup {v} : ~Over(u[1])
  BY <1>1, <1>2 DEF Over, Accepting
<1>4. ASSUME NEW u \in Records, NEW t \in ExceptionType,
             exception[u][t] \in {"RESOLVED", "ACCEPTED", "REJECTED"}
      PROVE  exception'[u][t] = exception[u][t]
  <2>1. CASE u = v
    <3>1. types \cap Raised(v) = {}
      BY <1>1 DEF VerificationInv, UnrecordedIsClean
    <3> QED
      BY <1>1, <1>4, <2>1, <3>1, RaiseKeeps
  <2>2. CASE u \in D /\ "DUPLICATE_TAG" \notin Raised(u)
    <3>1. {"DUPLICATE_TAG"} \in SUBSET ExceptionType /\ {"DUPLICATE_TAG"} \cap Raised(u) = {}
      BY <2>2 DEF ExceptionType
    <3> QED
      BY <1>1, <1>4, <2>2, <3>1, RaiseKeeps
  <2>3. CASE u \in D /\ "DUPLICATE_TAG" \in Raised(u)
    BY <1>1, <2>3
  <2>4. CASE u \notin D /\ u # v
    BY <1>1, <2>4
  <2> HIDE DEF ObservationWrites
  <2> QED
    BY <2>1, <2>2, <2>3, <2>4
<1>5. \A u \in Records : Over(u[1]) => verification'[u] = verification[u] /\ exception'[u] = exception[u]
  BY <1>1, <1>3
<1> QED
  BY <1>4, <1>5 DEF ClosedStays, Over

LEMMA ReconcileKeepsClosed ==
  ASSUME VerificationInv, NEW c \in Campaigns, ReconcileMissing(c)
  PROVE  ClosedStays
<1> DEFINE missing == {<<c, a>> : a \in {b \in Expected(c) : ~Recorded(<<c, b>>)}}
<1>1. /\ campaign[c].status \in Accepting
      /\ \A v \in Records \ missing : verification'[v] = verification[v] /\ exception'[v] = exception[v]
      /\ \A v \in Records : v \in missing => exception'[v] = Raise(v, {"ASSET_NOT_FOUND"})
  BY DEF ReconcileMissing
<1>2. ASSUME NEW v \in Records, v \in missing PROVE v[1] = c /\ ~Recorded(v)
  <2>1. PICK a \in Expected(c) : v = <<c, a>> /\ ~Recorded(<<c, a>>)
    BY <1>2
  <2> QED
    BY <2>1
<1> HIDE DEF missing
<1>3. \A v \in Records : v \in missing =>
        ~Over(v[1]) /\ {"ASSET_NOT_FOUND"} \cap Raised(v) = {}
  BY <1>1, <1>2 DEF Over, Accepting, VerificationInv, UnrecordedIsClean
<1>4. {"ASSET_NOT_FOUND"} \in SUBSET ExceptionType
  BY DEF ExceptionType
<1>5. ASSUME NEW v \in Records, NEW t \in ExceptionType,
             exception[v][t] \in {"RESOLVED", "ACCEPTED", "REJECTED"}
      PROVE  exception'[v][t] = exception[v][t]
  <2>1. CASE v \in missing
    BY <1>1, <1>3, <1>4, <1>5, <2>1, RaiseKeeps
  <2>2. CASE v \notin missing
    BY <1>1, <2>2
  <2> QED
    BY <2>1, <2>2
<1> QED
  BY <1>1, <1>3, <1>5 DEF ClosedStays, Over

LEMMA ManualKeepsClosed ==
  ASSUME VerificationInv, NEW v \in Records, CreateManualException(v)
  PROVE  ClosedStays
<1>1. /\ campaign[v[1]].status \in Accepting /\ "OTHER" \notin Raised(v)
      /\ exception' = [exception EXCEPT ![v] = Raise(v, {"OTHER"})]
      /\ \A u \in Records \ {v} : verification'[u] = verification[u]
  BY DEF CreateManualException, VerificationInv, VerificationShape
<1>2. exception'[v] = Raise(v, {"OTHER"}) /\ \A u \in Records \ {v} : exception'[u] = exception[u]
  BY <1>1 DEF VerificationInv, VerificationTypeOK
<1>3. {"OTHER"} \in SUBSET ExceptionType /\ {"OTHER"} \cap Raised(v) = {}
  BY <1>1 DEF ExceptionType
<1>4. \A t \in ExceptionType : exception[v][t] \in {"RESOLVED", "ACCEPTED", "REJECTED"}
        => exception'[v][t] = exception[v][t]
  BY <1>2, <1>3, RaiseKeeps
<1>5. ~Over(v[1])
  BY <1>1 DEF Over, Accepting
<1> QED
  BY <1>1, <1>2, <1>4, <1>5 DEF ClosedStays, Over

LEMMA ReviewKeepsClosed ==
  ASSUME VerificationInv, NEW v \in Records, NEW t \in ExceptionType,
         NEW status \in ExceptionStatus, ReviewException(v, t, status)
  PROVE  ClosedStays
<1>1. /\ exception[v][t] \in {"OPEN", "UNDER_REVIEW"}
      /\ exception' = [exception EXCEPT ![v][t] = status] /\ UNCHANGED verification
  BY DEF ReviewException
<1>2. exception \in [Records -> [ExceptionType -> ExceptionStatus \cup {"NONE"}]]
  BY DEF VerificationInv, VerificationTypeOK
<1>3. \A u \in Records, x \in ExceptionType :
        exception'[u][x] # exception[u][x] => exception[u][x] \in {"OPEN", "UNDER_REVIEW"}
  BY <1>1, <1>2
<1> QED
  BY <1>1, <1>3 DEF ClosedStays

LEMMA NextKeepsClosed ==
  ASSUME VerificationInv, NEW scopes, NEW observations, VerificationNext(scopes, observations)
  PROVE  ClosedStays
<1>1. ASSUME UNCHANGED <<verification, exception>> PROVE ClosedStays
  BY <1>1 DEF ClosedStays
<1>2. ASSUME NEW a \in Assets, ChangeRegister(a) PROVE ClosedStays
  BY <1>1, <1>2 DEF ChangeRegister
<1>3. ASSUME NEW c \in Campaigns,
             \/ CreateCampaign(c) \/ StartCampaign(c) \/ CompleteCampaign(c) \/ CancelCampaign(c)
             \/ \E scope \in scopes : UpdateCampaign(c, scope)
      PROVE  ClosedStays
  BY <1>1, <1>3 DEF CreateCampaign, StartCampaign, CompleteCampaign, CancelCampaign,
                    UpdateCampaign
<1> QED
  BY <1>2, <1>3, CreateKeepsClosed, ReconcileKeepsClosed, ManualKeepsClosed,
     ReviewKeepsClosed DEF VerificationNext

-----------------------------------------------------------------------------
(* The composition *)

ControlsInv == workload \in Workloads /\ VerificationInv /\ EvidenceInv /\ LedgerInv

LEMMA InitControls == Init => ControlsInv
BY InitVerification, InitEvidence, InitLedger DEF Init, ControlsInv

\* A step is a step of one part and leaves the variables of the two others alone.
LEMMA NextIsOfOnePart ==
  ASSUME [Next]_vars
  PROVE  /\ UNCHANGED workload
         /\ \/ VerificationNext(workload.scopes, workload.observations)
            \/ UNCHANGED verificationVars
         /\ [EvidenceNext]_evidenceVars /\ [LedgerNext]_ledgerVars
BY DEF Next, vars, Verifying, Uploading, Assuring

LEMMA NextControls == ControlsInv /\ [Next]_vars => ControlsInv' /\ [ClosedStays]_verificationVars
<1> SUFFICES ASSUME ControlsInv, [Next]_vars
             PROVE  ControlsInv' /\ [ClosedStays]_verificationVars
  OBVIOUS
<1>1. /\ UNCHANGED workload
      /\ \/ VerificationNext(workload.scopes, workload.observations)
         \/ UNCHANGED verificationVars
      /\ [EvidenceNext]_evidenceVars /\ [LedgerNext]_ledgerVars
  BY NextIsOfOnePart
<1>2. VerificationInv' /\ [ClosedStays]_verificationVars
  <2>1. VerificationInv /\ workload.scopes \in SUBSET Scopes
    BY WorkloadsAssumption DEF ControlsInv
  <2>2. CASE VerificationNext(workload.scopes, workload.observations)
    BY <2>1, <2>2, NextVerification, NextKeepsClosed
  <2>3. CASE UNCHANGED verificationVars
    BY <2>1, <2>3, StutterVerification
  <2> QED
    BY <1>1, <2>2, <2>3
<1>3. EvidenceInv' /\ LedgerInv'
  BY <1>1, NextEvidence, NextLedger DEF ControlsInv
<1> QED
  BY <1>1, <1>2, <1>3 DEF ControlsInv

\* ResultsSummarizeExceptions in every reachable state: whatever is observed, found missing
\* or raised by hand, a result follows from the exceptions (services.py:434, 471).
THEOREM ResultsCorrect == Spec => []ResultsSummarizeExceptions
<1>1. ControlsInv => ResultsSummarizeExceptions
  BY DEF ControlsInv, VerificationInv
<1> QED
  BY <1>1, InitControls, NextControls, PTL DEF Spec

\* ClosedCampaignIsFinal: no service writes a record or raises an exception in a campaign
\* that is over, and none reopens a closed exception (services.py:613, 663).
THEOREM CampaignsClose == Spec => ClosedCampaignIsFinal
<1>1. [ClosedStays]_verificationVars =>
        [/\ \A v \in Records : campaign[v[1]].status \in {"COMPLETED", "CANCELLED"} =>
              /\ verification'[v] = verification[v]
              /\ \A t \in ExceptionType : exception[v][t] = "NONE" => exception'[v][t] = "NONE"
         /\ \A v \in Records, t \in ExceptionType :
              exception[v][t] \in {"RESOLVED", "ACCEPTED", "REJECTED"}
                => exception'[v][t] = exception[v][t]]_verificationVars
  BY DEF ClosedStays
<1> QED
  BY <1>1, InitControls, NextControls, PTL DEF Spec, ClosedCampaignIsFinal

\* What EvidenceCorrect, LedgerCorrect and DetectionsCorrect say of the parts holds in the
\* composition, whose steps are theirs (services.py:851, runs.py:251).
THEOREM PartsCorrect == Spec => [](EvidenceAgrees /\ LedgerAgrees /\ DetectionsRecorded)
<1>1. ControlsInv => EvidenceAgrees /\ LedgerAgrees /\ DetectionsRecorded
  BY EvidenceInvAgrees, LedgerInvAgrees, LedgerInvRecorded DEF ControlsInv
<1> QED
  BY <1>1, InitControls, NextControls, PTL DEF Spec
=============================================================================
