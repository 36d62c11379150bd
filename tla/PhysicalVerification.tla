------------------------ MODULE PhysicalVerification ------------------------
(***************************************************************************)
(* Physical verification of one organization: campaigns, what verifiers    *)
(* observe in them, the exceptions that reconciliation with the asset      *)
(* register raises, and their review.  Every service that writes a         *)
(* campaign's verifications or exceptions holds the campaign's row lock    *)
(* for its whole transaction, so each is one step; the register goes on    *)
(* changing between them.                                                  *)
(*                                                                         *)
(* A verification is named by its campaign and its subject: the registered *)
(* asset (the unique index allows one for each asset) or one of the        *)
(* unregistered items found.                                               *)
(***************************************************************************)
EXTENDS Naturals, Sequences

CONSTANTS
  Campaigns,
  Assets,
  Items,           \* unregistered physical items, one for each observation of one
  Scopes,          \* [type : {"ORGANIZATION", "DEPARTMENT", "LOCATION"}, at]
  RegisterRows,    \* rows that other workflows may give an asset
  Folded,          \* the tags without regard to case, [tags -> tags]
  Nothing          \* no tag, no place, nobody

ASSUME SubjectsAssumption == Assets \cap Items = {}

VARIABLES
  register,        \* [Assets -> RegisterRows]
  campaign,        \* [Campaigns -> [status, scope]]
  verification,    \* [Records -> [result, tag]]
  exception        \* [Records -> [ExceptionType -> ExceptionStatus or "NONE"]]

verificationVars == <<register, campaign, verification, exception>>

Subjects == Assets \cup Items
Records == Campaigns \X Subjects

CampaignStatus == {"ABSENT", "DRAFT", "OPEN", "IN_PROGRESS", "COMPLETED", "CANCELLED"}
ExceptionType == {"LOCATION_MISMATCH", "DEPARTMENT_MISMATCH", "CUSTODY_MISMATCH",
                  "CONDITION_MISMATCH", "TAG_MISSING", "TAG_MISMATCH", "ASSET_NOT_FOUND",
                  "DAMAGED_ASSET", "UNREGISTERED_ASSET", "DUPLICATE_TAG",
                  "LIFECYCLE_MISMATCH", "OTHER"}
ExceptionStatus == {"OPEN", "UNDER_REVIEW", "RESOLVED", "ACCEPTED", "REJECTED"}
Accepting == {"OPEN", "IN_PROGRESS"}

Recorded(v) == verification[v].result # "ABSENT"
Raised(v) == {t \in ExceptionType : exception[v][t] # "NONE"}

\* some campaigns may be over already
VerificationInit(rows, scopes, completed) ==
  /\ register \in [Assets -> rows]
  /\ \E scope \in [Campaigns -> scopes] :
       campaign = [c \in Campaigns |-> [status |-> IF c \in completed THEN "COMPLETED" ELSE "ABSENT",
                                        scope |-> scope[c]]]
  /\ verification = [v \in Records |-> [result |-> "ABSENT", tag |-> Nothing]]
  /\ exception = [v \in Records |-> [t \in ExceptionType |-> "NONE"]]

\* other workflows move, assign, repair, dispose of and reassess assets
ChangeRegister(a) ==
  /\ \E row \in RegisterRows : register' = [register EXCEPT ![a] = row]
  /\ UNCHANGED <<campaign, verification, exception>>

-----------------------------------------------------------------------------
(* Campaigns *)

\* _campaign_scope
InScope(scope, department, location) ==
  /\ scope.type = "DEPARTMENT" => department = scope.at
  /\ scope.type = "LOCATION" => location = scope.at

\* expected_assets: capitalized and not disposed of, in the scope as it is now
ExpectedStatuses == {"ACTIVE", "IN_MAINTENANCE", "TRANSFERRED", "IMPAIRED"}
Expected(c) == {a \in Assets :
                  /\ register[a].status \in ExpectedStatuses
                  /\ InScope(campaign[c].scope, register[a].department, register[a].location)}

SetStatus(c, status) == campaign' = [campaign EXCEPT ![c].status = status]

CreateCampaign(c) ==
  /\ campaign[c].status = "ABSENT"
  /\ SetStatus(c, "DRAFT")
  /\ UNCHANGED <<register, verification, exception>>

UpdateCampaign(c, scope) ==
  /\ campaign[c].status = "DRAFT"
  /\ campaign' = [campaign EXCEPT ![c].scope = scope]
  /\ UNCHANGED <<register, verification, exception>>

StartCampaign(c) ==
  /\ campaign[c].status = "DRAFT"
  /\ SetStatus(c, "OPEN")
  /\ UNCHANGED <<register, verification, exception>>

CompleteCampaign(c) ==
  /\ campaign[c].status \in Accepting
  /\ SetStatus(c, "COMPLETED")
  /\ UNCHANGED <<register, verification, exception>>

CancelCampaign(c) ==
  /\ campaign[c].status \in {"DRAFT"} \cup Accepting
  /\ SetStatus(c, "CANCELLED")
  /\ UNCHANGED <<register, verification, exception>>

-----------------------------------------------------------------------------
(* Observation and reconciliation *)

\* _reconcile, the comparison of a registered asset
Mismatches(row, o) ==
  {t \in ExceptionType :
     \/ t = "TAG_MISSING" /\ o.tag = Nothing
     \/ t = "TAG_MISMATCH" /\ o.tag \notin {Nothing, row.tag}
     \/ t = "LOCATION_MISMATCH" /\ o.location # row.location
     \/ t = "DEPARTMENT_MISMATCH" /\ o.department # row.department
     \/ t = "CUSTODY_MISMATCH" /\ o.custodian # row.custodian
     \/ t = "LIFECYCLE_MISMATCH"
        /\ row.status \in {"DISPOSED", "DRAFT", "PENDING_CAPITALIZATION"}
     \/ t = "CONDITION_MISMATCH"
        /\ o.condition # "UNKNOWN" /\ row.condition # "UNKNOWN" /\ o.condition # row.condition}

\* ... of an item without an asset, and of either
Detected(s, o) ==
  (IF s \in Assets THEN Mismatches(register[s], o)
   ELSE {"UNREGISTERED_ASSET"} \cup (IF o.tag = Nothing THEN {"TAG_MISSING"} ELSE {}))
  \cup (IF o.condition \in {"DAMAGED", "CRITICAL"} THEN {"DAMAGED_ASSET"} ELSE {})

\* the other verifications of the campaign with the tag, iexact
SameTag(c, s, tag) ==
  {v \in {c} \X (Subjects \ {s}) :
     /\ Recorded(v) /\ tag # Nothing /\ verification[v].tag # Nothing
     /\ Folded[verification[v].tag] = Folded[tag]}

\* result_priority
Priority == <<"UNREGISTERED_ASSET", "DUPLICATE_TAG", "ASSET_NOT_FOUND", "TAG_MISSING",
              "CONDITION_MISMATCH", "LOCATION_MISMATCH", "CUSTODY_MISMATCH", "DAMAGED_ASSET">>
ResultOf(t) == IF t = "DAMAGED_ASSET" THEN "DAMAGED" ELSE t
Summary(types) ==
  LET ranks == {i \in DOMAIN Priority : Priority[i] \in types} IN
  IF ranks # {} THEN ResultOf(Priority[CHOOSE i \in ranks : \A j \in ranks : i <= j])
  ELSE IF types # {} THEN "OTHER_EXCEPTION" ELSE "VERIFIED"

\* _exception: new ones are OPEN
Raise(v, types) == [t \in ExceptionType |-> IF t \in types THEN "OPEN" ELSE exception[v][t]]

\* a plausible bug: the earlier observation gets the exception and keeps its result
FlaggedOnly(v) == verification[v]

\* the earlier observation of the tag becomes a duplicate as well
Flagged(v) == [verification[v] EXCEPT !.result = "DUPLICATE_TAG"]

\* the places of an unregistered item default to those of the scope
Placed(c, s, o) ==
  LET scope == campaign[c].scope IN
  [o EXCEPT
     !.department = IF s \in Items /\ @ = Nothing /\ scope.type = "DEPARTMENT" THEN scope.at ELSE @,
     !.location = IF s \in Items /\ @ = Nothing /\ scope.type = "LOCATION" THEN scope.at ELSE @]

\* create_verification.  An earlier duplicate that is unregistered cannot take the result
\* DUPLICATE_TAG (physical_verify_asset_result_valid): the request is rolled back.
CreateVerification(c, s, reported) ==
  LET v == <<c, s>>
      o == Placed(c, s, reported)
      where == IF s \in Assets THEN register[s] ELSE o
      duplicates == SameTag(c, s, o.tag)
      types == Detected(s, o) \cup (IF duplicates # {} THEN {"DUPLICATE_TAG"} ELSE {})
  IN
  /\ campaign[c].status \in Accepting
  /\ InScope(campaign[c].scope, where.department, where.location)
  /\ ~Recorded(v)
  /\ \A d \in duplicates : d[2] \in Assets
  /\ verification' = [u \in Records |->
       IF u = v THEN [result |-> Summary(types), tag |-> o.tag]
       ELSE IF u \in duplicates THEN Flagged(u) ELSE verification[u]]
  /\ exception' = [u \in Records |->
       IF u = v THEN Raise(u, types)
       ELSE IF u \in duplicates /\ "DUPLICATE_TAG" \notin Raised(u)
            THEN Raise(u, {"DUPLICATE_TAG"}) ELSE exception[u]]
  /\ SetStatus(c, "IN_PROGRESS")
  /\ UNCHANGED register

\* reconcile_missing_assets leaves the status of the campaign as it is
ReconcileMissing(c) ==
  LET missing == {<<c, a>> : a \in {b \in Expected(c) : ~Recorded(<<c, b>>)}} IN
  /\ campaign[c].status \in Accepting
  /\ verification' = [v \in Records |->
       IF v \in missing THEN [result |-> "ASSET_NOT_FOUND", tag |-> Nothing] ELSE verification[v]]
  /\ exception' = [v \in Records |->
       IF v \in missing THEN Raise(v, {"ASSET_NOT_FOUND"}) ELSE exception[v]]
  /\ UNCHANGED <<register, campaign>>

\* a plausible bug: the status of the campaign is not looked at
CreateLateException(v) ==
  /\ Recorded(v) /\ "OTHER" \notin Raised(v)
  /\ exception' = [exception EXCEPT ![v] = Raise(v, {"OTHER"})]
  /\ verification' = [verification EXCEPT ![v].result =
                        IF @ = "VERIFIED" THEN "OTHER_EXCEPTION" ELSE @]
  /\ UNCHANGED <<register, campaign>>

\* create_manual_exception
CreateManualException(v) ==
  /\ Recorded(v) /\ campaign[v[1]].status \in Accepting
  /\ "OTHER" \notin Raised(v)
  /\ exception' = [exception EXCEPT ![v] = Raise(v, {"OTHER"})]
  /\ verification' = [verification EXCEPT ![v].result =
                        IF @ = "VERIFIED" THEN "OTHER_EXCEPTION" ELSE @]
  /\ UNCHANGED <<register, campaign>>

\* start_exception_review, _finish_exception: also after the campaign is over
ReviewException(v, t, status) ==
  /\ \/ exception[v][t] = "OPEN" /\ status = "UNDER_REVIEW"
     \/ exception[v][t] = "UNDER_REVIEW" /\ status \in {"RESOLVED", "ACCEPTED", "REJECTED"}
  /\ exception' = [exception EXCEPT ![v][t] = status]
  /\ UNCHANGED <<register, campaign, verification>>

VerificationNext(scopes, observations) ==
  \/ \E a \in Assets : ChangeRegister(a)
  \/ \E c \in Campaigns :
       \/ CreateCampaign(c) \/ StartCampaign(c) \/ CompleteCampaign(c) \/ CancelCampaign(c)
       \/ \E scope \in scopes : UpdateCampaign(c, scope)
       \/ \E s \in Subjects, o \in observations : CreateVerification(c, s, o)
       \/ ReconcileMissing(c)
  \/ \E v \in Records :
       \/ CreateManualException(v)
       \/ \E t \in ExceptionType, status \in ExceptionStatus : ReviewException(v, t, status)

VerificationTypeOK ==
  /\ register \in [Assets -> RegisterRows]
  /\ campaign \in [Campaigns -> [status : CampaignStatus, scope : Scopes]]
  /\ exception \in [Records -> [ExceptionType -> ExceptionStatus \cup {"NONE"}]]

-----------------------------------------------------------------------------
\* The result of a verification is the summary of its exceptions, and two observations of
\* one tag carry a DUPLICATE_TAG exception each (docs/business-rules.md:122): whatever is
\* observed, missed or raised later, by whichever service (services.py:434, 471).
ResultsSummarizeExceptions ==
  /\ \A v \in Records : Recorded(v) => verification[v].result = Summary(Raised(v))
  /\ \A v \in Records : Recorded(v) /\ SameTag(v[1], v[2], verification[v].tag) # {}
       => "DUPLICATE_TAG" \in Raised(v)

\* What a campaign recorded is final once it is over, except for the review of what it
\* raised, and a closed exception stays closed; assurance runs read completed campaigns
\* (services.py:613, 663).
ClosedCampaignIsFinal ==
  [][/\ \A v \in Records : campaign[v[1]].status \in {"COMPLETED", "CANCELLED"} =>
          /\ verification'[v] = verification[v]
          /\ \A t \in ExceptionType : exception[v][t] = "NONE" => exception'[v][t] = "NONE"
     /\ \A v \in Records, t \in ExceptionType :
          exception[v][t] \in {"RESOLVED", "ACCEPTED", "REJECTED"}
            => exception'[v][t] = exception[v][t]]_verificationVars
=============================================================================
