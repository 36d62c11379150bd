------------------------ MODULE MCAssuranceControls ------------------------
(* Instance of AssuranceControls for TLC. *)
EXTENDS AssuranceControls

CONSTANTS c1, a1, a2, i1

Row(status, location) ==
  [tag |-> "T1", status |-> status, department |-> "d1", location |-> location,
   custodian |-> "p1", condition |-> "GOOD"]
MCRegisterRows == {Row("ACTIVE", "l1"), Row("DISPOSED", "l2")}

Seen(tag, location, condition) ==
  [tag |-> tag, department |-> "d1", location |-> location, custodian |-> "p1",
   condition |-> condition]
MCObservations == {Seen("T1", "l1", "GOOD"), Seen("t1", "l2", "DAMAGED"),
                   Seen(Nothing, Nothing, "UNKNOWN")}
MCFolded == [t \in {"T1", "t1"} |-> "t1"]
Everything == [type |-> "ORGANIZATION", at |-> Nothing]
MCScopes == {Everything, [type |-> "LOCATION", at |-> "l1"]}

Candidate(r, i, severity) == [run |-> r, identity |-> i, severity |-> severity]
MCDetections == {
  {Candidate(1, 1, 2), Candidate(1, 1, 1), Candidate(1, 2, 1), Candidate(2, 1, 1),
   Candidate(2, 2, 2), Candidate(3, 1, 1)}}

Usual == [rows |-> {Row("ACTIVE", "l1")}, scopes |-> {Everything},
          observations |-> MCObservations, subjects |-> {}, reviewed |-> {},
          completed |-> {}, uploads |-> {}, runs |-> {}]

\* three subjects are observed, in either scope; two are, while the register changes and what
\* is found is reviewed; two files are uploaded for one verification; three runs of a
\* completed campaign are published
MCWorkloads == {
  [Usual EXCEPT !.scopes = MCScopes, !.subjects = {a1, a2, i1}],
  [Usual EXCEPT !.rows = MCRegisterRows, !.subjects = {a1, i1},
                !.reviewed = {"DUPLICATE_TAG", "LIFECYCLE_MISMATCH"}],
  [Usual EXCEPT !.subjects = {i1}, !.observations = {Seen("T1", "l1", "GOOD")},
                !.uploads = Uploads],
  [Usual EXCEPT !.completed = Campaigns, !.runs = Runs]}
=============================================================================
