--------------------------- MODULE AssetLifecycle ---------------------------
(***************************************************************************)
(* The asset register and the workflows that move an asset through its     *)
(* life: acquisition and capitalization, custody, placement transfers,     *)
(* maintenance work orders and plans, and disposal.                        *)
(*                                                                         *)
(* Every service of the application is one database transaction; here it   *)
(* is one atomic step on the rows it reads and writes.  A step stands for  *)
(* the transaction that commits: a call the service rejects (a             *)
(* ValidationError) rolls back and changes nothing.  AssetTransactions     *)
(* splits these steps into the row locks and reads the services really     *)
(* perform and shows that they implement this specification.               *)
(*                                                                         *)
(* Placement (department and location) is one value.  Statuses that no     *)
(* service sets (PENDING_CAPITALIZATION, TRANSFERRED, IMPAIRED) appear in   *)
(* the sets the code tests and in no reachable state.                      *)
(***************************************************************************)
EXTENDS Naturals, FiniteSets

CONSTANTS
  Assets, Places, Users,                      \* rows of other tables
  Transfers, WorkOrders, Plans, Disposals,    \* identifiers of rows yet to be inserted
  AssetLimit,                                 \* the plan's limit on registered assets
  MaxCorrections,                             \* bound on the corrections of one asset
  None                                        \* SQL NULL

ASSUME NoneIsNoRow == None \notin Assets \cup Places \cup Users
ASSUME LimitIsNat == AssetLimit \in Nat
ASSUME CorrectionsAreBounded == MaxCorrections \in Nat

VARIABLES
  asset,         \* [Assets -> AssetRow]
  acquisition,   \* [Assets -> AcquisitionStatus], one acquisition per asset
  custody,       \* [Assets -> BOOLEAN], is there an assignment with returned_at NULL
  transfer,      \* [Transfers -> TransferRow]
  order,         \* [WorkOrders -> WorkOrderRow]
  plan,          \* [Plans -> PlanRow]
  disposal,      \* [Disposals -> DisposalRow]
  corrections    \* [Assets -> 0..MaxCorrections], ASSET_UPDATED events of the admin site

rows == <<asset, acquisition, custody, transfer, order, plan, disposal>>
vars == <<rows, corrections>>

-----------------------------------------------------------------------------
(* Rows.  "ABSENT" is a row that has not been inserted. *)

Uncapitalized == {"DRAFT", "PENDING_CAPITALIZATION"}
Movable == {"ACTIVE", "IN_MAINTENANCE", "TRANSFERRED", "IMPAIRED"}
AssetStatus == Uncapitalized \cup Movable \cup {"DISPOSED"}
AssetRow == [status : AssetStatus \cup {"ABSENT"}, place : Places \cup {None}]

\* UNDATED is a DRAFT acquisition without a capitalization date
AcquisitionStatus == {"ABSENT", "UNDATED", "DRAFT", "CAPITALIZED"}

OpenTransferStates == {"REQUESTED", "APPROVED"}
TransferRow == [status : OpenTransferStates \cup {"ABSENT", "COMPLETED", "REJECTED", "CANCELLED"},
                asset  : Assets \cup {None},
                from   : Places \cup {None},
                to     : Places \cup {None}]

ActiveOrderStates == {"ASSIGNED", "IN_PROGRESS"}
OpenOrderStates == {"OPEN"} \cup ActiveOrderStates
WorkOrderRow == [status : OpenOrderStates \cup {"ABSENT", "COMPLETED", "CANCELLED"},
                 asset  : Assets \cup {None}]

\* locked and allowed: an update_maintenance_plan transaction holds the plan's
\* row, and the asset status it joined allows the plan to be active
PlanRow == [exists : BOOLEAN, asset : Assets \cup {None}, active : BOOLEAN,
            locked : BOOLEAN, allowed : BOOLEAN]

OpenDisposalStates == {"DRAFT", "PENDING_APPROVAL", "APPROVED"}
DisposalRow == [status   : OpenDisposalStates \cup {"ABSENT", "COMPLETED", "REJECTED", "CANCELLED"},
                asset    : Assets \cup {None},
                requester : Users \cup {None},
                approver  : Users \cup {None}]

Init ==
  /\ asset = [a \in Assets |-> [status |-> "ABSENT", place |-> None]]
  /\ acquisition = [a \in Assets |-> "ABSENT"]
  /\ custody = [a \in Assets |-> FALSE]
  /\ transfer = [t \in Transfers |->
                   [status |-> "ABSENT", asset |-> None, from |-> None, to |-> None]]
  /\ order = [w \in WorkOrders |-> [status |-> "ABSENT", asset |-> None]]
  /\ plan = [p \in Plans |-> [exists |-> FALSE, asset |-> None, active |-> FALSE,
                              locked |-> FALSE, allowed |-> FALSE]]
  /\ disposal = [d \in Disposals |-> [status |-> "ABSENT", asset |-> None,
                                      requester |-> None, approver |-> None]]
  /\ corrections = [a \in Assets |-> 0]

Registered == {a \in Assets : asset[a].status # "ABSENT"}

HasOpenTransfer(a) ==
  \E t \in Transfers : transfer[t].asset = a /\ transfer[t].status \in OpenTransferStates

HasOpenOrder(a) ==
  \E w \in WorkOrders : order[w].asset = a /\ order[w].status \in OpenOrderStates

HasOpenDisposal(a) ==
  \E d \in Disposals : disposal[d].asset = a /\ disposal[d].status \in OpenDisposalStates

SetAssetStatus(a, s) == asset' = [asset EXCEPT ![a].status = s]

-----------------------------------------------------------------------------
(* Master data, acquisition and capitalization *)

\* the organization's row is locked while the limit is compared and the asset inserted
CreateAsset(a, p) ==
  /\ asset[a].status = "ABSENT"
  /\ Cardinality(Registered) < AssetLimit
  /\ asset' = [asset EXCEPT ![a] = [status |-> "DRAFT", place |-> p]]
  /\ UNCHANGED <<acquisition, custody, transfer, order, plan, disposal>>

\* Only an ACTIVE asset's placement is protected: the placement of a draft, an
\* asset in maintenance or a disposed asset is edited as master data.
UpdateAsset(a, p) ==
  /\ asset[a].status \notin {"ABSENT", "ACTIVE"}
  /\ asset' = [asset EXCEPT ![a].place = p]
  /\ UNCHANGED <<acquisition, custody, transfer, order, plan, disposal>>

CreateAcquisition(a, s) ==
  /\ asset[a].status \in Uncapitalized
  /\ acquisition[a] = "ABSENT"
  /\ s \in {"UNDATED", "DRAFT"}
  /\ acquisition' = [acquisition EXCEPT ![a] = s]
  /\ UNCHANGED <<asset, custody, transfer, order, plan, disposal>>

\* a plausible bug: the acquisition's status is not checked before it is edited
UpdateAnyAcquisition(a, s) ==
  /\ acquisition[a] # "ABSENT"
  /\ s \in {"UNDATED", "DRAFT"}
  /\ acquisition' = [acquisition EXCEPT ![a] = s]
  /\ UNCHANGED <<asset, custody, transfer, order, plan, disposal>>

UpdateAcquisition(a, s) ==
  /\ acquisition[a] \in {"UNDATED", "DRAFT"}
  /\ s \in {"UNDATED", "DRAFT"}
  /\ acquisition' = [acquisition EXCEPT ![a] = s]
  /\ UNCHANGED <<asset, custody, transfer, order, plan, disposal>>

\* a plausible bug: neither the acquisition's nor the asset's status is checked again
CapitalizeAgain(a) ==
  /\ acquisition[a] \in {"DRAFT", "CAPITALIZED"}
  /\ SetAssetStatus(a, "ACTIVE")
  /\ acquisition' = [acquisition EXCEPT ![a] = "CAPITALIZED"]
  /\ UNCHANGED <<custody, transfer, order, plan, disposal>>

CapitalizeAcquisition(a) ==
  /\ acquisition[a] = "DRAFT"
  /\ asset[a].status \in Uncapitalized
  /\ SetAssetStatus(a, "ACTIVE")
  /\ acquisition' = [acquisition EXCEPT ![a] = "CAPITALIZED"]
  /\ UNCHANGED <<custody, transfer, order, plan, disposal>>

-----------------------------------------------------------------------------
(* Custody and placement transfers *)

\* p is the placement recorded on the assignment; unless the asset is ACTIVE it
\* becomes the asset's placement
AssignAsset(a, p) ==
  /\ asset[a].status \in Movable
  /\ ~custody[a]
  /\ asset[a].status = "ACTIVE" => p = asset[a].place
  /\ custody' = [custody EXCEPT ![a] = TRUE]
  /\ asset' = [asset EXCEPT ![a].place = p]
  /\ UNCHANGED <<acquisition, transfer, order, plan, disposal>>

ReturnAsset(a) ==
  /\ asset[a].status \in Movable
  /\ custody[a]
  /\ custody' = [custody EXCEPT ![a] = FALSE]
  /\ UNCHANGED <<asset, acquisition, transfer, order, plan, disposal>>

\* HasOpenTransfer: the partial unique index uniq_open_transfer_asset
RequestTransfer(t, a, to) ==
  /\ transfer[t].status = "ABSENT"
  /\ asset[a].status \in Movable
  /\ to # asset[a].place
  /\ ~HasOpenTransfer(a)
  /\ transfer' = [transfer EXCEPT ![t] = [status |-> "REQUESTED", asset |-> a,
                                          from |-> asset[a].place, to |-> to]]
  /\ UNCHANGED <<asset, acquisition, custody, order, plan, disposal>>

\* approve, reject or cancel: none of them reads or locks the asset
TransitionTransfer(t, next) ==
  /\ transfer[t].status = "REQUESTED"
  /\ transfer' = [transfer EXCEPT ![t].status = next]
  /\ UNCHANGED <<asset, acquisition, custody, order, plan, disposal>>

ApproveTransfer(t) == TransitionTransfer(t, "APPROVED")
RejectTransfer(t)  == TransitionTransfer(t, "REJECTED")

\* a plausible bug: a status the table does not list
CancelTransferMisspelt(t) == TransitionTransfer(t, "CANCELED")

CancelTransfer(t) == TransitionTransfer(t, "CANCELLED")

\* a plausible bug: the source placement is not compared again
CompleteTransferUnchecked(t) ==
  LET a == transfer[t].asset IN
  /\ transfer[t].status = "APPROVED"
  /\ asset[a].status \in Movable
  /\ asset' = [asset EXCEPT ![a].place = transfer[t].to]
  /\ transfer' = [transfer EXCEPT ![t].status = "COMPLETED"]
  /\ UNCHANGED <<acquisition, custody, order, plan, disposal>>

CompleteTransfer(t) ==
  LET a == transfer[t].asset IN
  /\ transfer[t].status = "APPROVED"
  /\ asset[a].status \in Movable
  /\ asset[a].place = transfer[t].from
  /\ asset' = [asset EXCEPT ![a].place = transfer[t].to]
  /\ transfer' = [transfer EXCEPT ![t].status = "COMPLETED"]
  /\ UNCHANGED <<acquisition, custody, order, plan, disposal>>

-----------------------------------------------------------------------------
(* Maintenance *)

CreateWorkOrder(w, a) ==
  /\ order[w].status = "ABSENT"
  /\ asset[a].status \in Movable
  /\ order' = [order EXCEPT ![w] = [status |-> "OPEN", asset |-> a]]
  /\ UNCHANGED <<asset, acquisition, custody, transfer, plan, disposal>>

AssignWorkOrder(w) ==
  /\ order[w].status = "OPEN"
  /\ asset[order[w].asset].status \in Movable
  /\ order' = [order EXCEPT ![w].status = "ASSIGNED"]
  /\ UNCHANGED <<asset, acquisition, custody, transfer, plan, disposal>>

StartWorkOrder(w) ==
  LET a == order[w].asset IN
  /\ order[w].status \in {"OPEN", "ASSIGNED"}
  /\ asset[a].status \in Movable
  /\ order' = [order EXCEPT ![w].status = "IN_PROGRESS"]
  /\ IF asset[a].status = "ACTIVE" THEN SetAssetStatus(a, "IN_MAINTENANCE")
                                   ELSE UNCHANGED asset
  /\ UNCHANGED <<acquisition, custody, transfer, plan, disposal>>

\* a plausible bug: the last order to close is taken to be the only one
RestoreAlways(w) ==
  LET a == order[w].asset IN
  IF asset[a].status = "IN_MAINTENANCE" THEN SetAssetStatus(a, "ACTIVE") ELSE UNCHANGED asset

\* _restore_asset_if_no_active_work: order w is the one being closed
RestoreAssetIfNoActiveWork(w) ==
  LET a == order[w].asset
      others == {v \in WorkOrders \ {w} :
                   order[v].asset = a /\ order[v].status \in ActiveOrderStates}
  IN IF asset[a].status = "IN_MAINTENANCE" /\ others = {}
       THEN SetAssetStatus(a, "ACTIVE")
       ELSE UNCHANGED asset

CompleteWorkOrder(w) ==
  /\ order[w].status = "IN_PROGRESS"
  /\ asset[order[w].asset].status \in Movable
  /\ order' = [order EXCEPT ![w].status = "COMPLETED"]
  /\ RestoreAssetIfNoActiveWork(w)
  /\ UNCHANGED <<acquisition, custody, transfer, plan, disposal>>

CancelWorkOrder(w) ==
  /\ order[w].status \in OpenOrderStates
  /\ asset[order[w].asset].status \in Movable
  /\ order' = [order EXCEPT ![w].status = "CANCELLED"]
  /\ RestoreAssetIfNoActiveWork(w)
  /\ UNCHANGED <<acquisition, custody, transfer, plan, disposal>>

CreateMaintenancePlan(p, a, active) ==
  /\ ~plan[p].exists
  /\ asset[a].status # "ABSENT"
  /\ active => asset[a].status # "DISPOSED"
  /\ plan' = [plan EXCEPT ![p] = [exists |-> TRUE, asset |-> a, active |-> active,
                                  locked |-> FALSE, allowed |-> FALSE]]
  /\ UNCHANGED <<asset, acquisition, custody, transfer, order, disposal>>

\* update_maintenance_plan locks the plan alone; the asset it joins is read and not
\* locked, so the status may change before the transaction commits
ReadMaintenancePlan(p) ==
  /\ plan[p].exists /\ ~plan[p].locked
  /\ plan' = [plan EXCEPT ![p].locked = TRUE,
                          ![p].allowed = asset[plan[p].asset].status # "DISPOSED"]
  /\ UNCHANGED <<asset, acquisition, custody, transfer, order, disposal>>

\* commits the new value, or rolls back and keeps the old one
UpdateMaintenancePlan(p, active) ==
  /\ plan[p].locked
  /\ LET kept == IF active /\ ~plan[p].allowed THEN plan[p].active ELSE active
     IN plan' = [plan EXCEPT ![p] = [@ EXCEPT !.locked = FALSE, !.allowed = FALSE, !.active = kept]]
  /\ UNCHANGED <<asset, acquisition, custody, transfer, order, disposal>>

-----------------------------------------------------------------------------
(* Disposal *)

\* HasOpenDisposal: the partial unique index uniq_open_disposal_asset
CreateDisposal(d, a, u) ==
  /\ disposal[d].status = "ABSENT"
  /\ asset[a].status = "ACTIVE"
  /\ ~HasOpenDisposal(a)
  /\ disposal' = [disposal EXCEPT ![d] = [status |-> "DRAFT", asset |-> a,
                                          requester |-> u, approver |-> None]]
  /\ UNCHANGED <<asset, acquisition, custody, transfer, order, plan>>

SubmitDisposal(d) ==
  /\ disposal[d].status = "DRAFT"
  /\ asset[disposal[d].asset].status = "ACTIVE"
  /\ disposal' = [disposal EXCEPT ![d].status = "PENDING_APPROVAL"]
  /\ UNCHANGED <<asset, acquisition, custody, transfer, order, plan>>

ApproveDisposal(d, u) ==
  /\ disposal[d].status = "PENDING_APPROVAL"
  /\ asset[disposal[d].asset].status = "ACTIVE"
  /\ u # disposal[d].requester
  /\ disposal' = [disposal EXCEPT ![d].status = "APPROVED", ![d].approver = u]
  /\ UNCHANGED <<asset, acquisition, custody, transfer, order, plan>>

\* reject and cancel lock the disposal alone
RejectDisposal(d) ==
  /\ disposal[d].status = "PENDING_APPROVAL"
  /\ disposal' = [disposal EXCEPT ![d].status = "REJECTED"]
  /\ UNCHANGED <<asset, acquisition, custody, transfer, order, plan>>

CancelDisposal(d) ==
  /\ disposal[d].status \in OpenDisposalStates
  /\ disposal' = [disposal EXCEPT ![d].status = "CANCELLED"]
  /\ UNCHANGED <<asset, acquisition, custody, transfer, order, plan>>

\* a plausible bug: a transfer that was approved is no longer a request
NoOpenOperationsButApproved(a) ==
  /\ ~custody[a]
  /\ \A t \in Transfers : transfer[t].asset = a => transfer[t].status # "REQUESTED"
  /\ ~HasOpenOrder(a)

\* _assert_no_open_operations
NoOpenOperations(a) == ~custody[a] /\ ~HasOpenTransfer(a) /\ ~HasOpenOrder(a)

\* maintenance plans are not looked at; the accounting snapshot is in Depreciation
CompleteDisposal(d) ==
  LET a == disposal[d].asset IN
  /\ disposal[d].status = "APPROVED"
  /\ asset[a].status = "ACTIVE"
  /\ disposal[d].approver # disposal[d].requester
  /\ NoOpenOperations(a)
  /\ disposal' = [disposal EXCEPT ![d].status = "COMPLETED"]
  /\ SetAssetStatus(a, "DISPOSED")
  /\ UNCHANGED <<acquisition, custody, transfer, order, plan>>

-----------------------------------------------------------------------------
(* The admin site.  AssetAdmin.save_model is atomic here as the services are;  *)
(* in the code it reads the row without a lock and saves all of it.            *)

\* the add form takes no lock on the organization and compares no limit
AdminCreateAsset(a, p) ==
  /\ asset[a].status = "ABSENT"
  /\ asset' = [asset EXCEPT ![a] = [status |-> "DRAFT", place |-> p]]
  /\ UNCHANGED <<acquisition, custody, transfer, order, plan, disposal, corrections>>

\* the change form of a global superuser, whatever the asset's status, or of tenant
\* staff while the asset is not ACTIVE; the event is recorded in the same transaction
CorrectAsset(a, p) ==
  /\ asset[a].status # "ABSENT" /\ p # asset[a].place
  /\ corrections[a] < MaxCorrections
  /\ asset' = [asset EXCEPT ![a].place = p]
  /\ corrections' = [corrections EXCEPT ![a] = @ + 1]
  /\ UNCHANGED <<acquisition, custody, transfer, order, plan, disposal>>

-----------------------------------------------------------------------------
AssetNext ==
  \E a \in Assets :
    \/ \E p \in Places : CreateAsset(a, p) \/ UpdateAsset(a, p) \/ AssignAsset(a, p)
    \/ \E s \in AcquisitionStatus : CreateAcquisition(a, s) \/ UpdateAcquisition(a, s)
    \/ CapitalizeAcquisition(a)
    \/ ReturnAsset(a)

TransferNext ==
  \E t \in Transfers :
    \/ \E a \in Assets, p \in Places : RequestTransfer(t, a, p)
    \/ ApproveTransfer(t) \/ RejectTransfer(t) \/ CancelTransfer(t) \/ CompleteTransfer(t)

WorkOrderNext ==
  \E w \in WorkOrders :
    \/ \E a \in Assets : CreateWorkOrder(w, a)
    \/ AssignWorkOrder(w) \/ StartWorkOrder(w) \/ CompleteWorkOrder(w) \/ CancelWorkOrder(w)

PlanNext ==
  \E p \in Plans :
    \/ \E a \in Assets, active \in BOOLEAN : CreateMaintenancePlan(p, a, active)
    \/ ReadMaintenancePlan(p)
    \/ \E active \in BOOLEAN : UpdateMaintenancePlan(p, active)

DisposalNext ==
  \E d \in Disposals :
    \/ \E a \in Assets, u \in Users : CreateDisposal(d, a, u)
    \/ \E u \in Users : ApproveDisposal(d, u)
    \/ SubmitDisposal(d) \/ RejectDisposal(d) \/ CancelDisposal(d) \/ CompleteDisposal(d)

AdminNext == \E a \in Assets, p \in Places : AdminCreateAsset(a, p) \/ CorrectAsset(a, p)

\* no service records an event of the admin site
ServiceNext ==
  /\ AssetNext \/ TransferNext \/ WorkOrderNext \/ PlanNext \/ DisposalNext
  /\ UNCHANGED corrections

Next == ServiceNext \/ AdminNext

Spec == Init /\ [][Next]_vars

-----------------------------------------------------------------------------
(* Properties *)

RowsTyped ==
  /\ asset \in [Assets -> AssetRow]
  /\ acquisition \in [Assets -> AcquisitionStatus]
  /\ custody \in [Assets -> BOOLEAN]
  /\ transfer \in [Transfers -> TransferRow]
  /\ order \in [WorkOrders -> WorkOrderRow]
  /\ plan \in [Plans -> PlanRow]
  /\ disposal \in [Disposals -> DisposalRow]

CorrectionsTyped == corrections \in [Assets -> 0..MaxCorrections]

\* Every row keeps the shape the tables give it.
TypeOK == RowsTyped /\ CorrectionsTyped

\* An order under way keeps its asset in maintenance, and an asset is in maintenance
\* only while an assigned or started order is left to bring it back: neither the start
\* nor the last close of several orders on one asset loses it (maintenance/services.py
\* start_work_order, _restore_asset_if_no_active_work).
MaintenanceMatchesOrders ==
  /\ \A w \in WorkOrders :
       order[w].status = "IN_PROGRESS" => asset[order[w].asset].status = "IN_MAINTENANCE"
  /\ \A a \in Assets :
       asset[a].status = "IN_MAINTENANCE" =>
         \E w \in WorkOrders : order[w].asset = a /\ order[w].status \in ActiveOrderStates

\* A disposed asset has been derecognized by one completed disposal and nothing is open
\* on it: no custody, transfer, work order or other disposal that would need the asset
\* to move again (disposals/services.py complete_disposal, against every service that
\* opens an operation).
DisposedIsClosed ==
  /\ \A a \in Assets :
       asset[a].status = "DISPOSED" =>
         /\ ~custody[a] /\ ~HasOpenTransfer(a) /\ ~HasOpenOrder(a)
         /\ ~HasOpenDisposal(a)
         /\ \E d \in Disposals : disposal[d].asset = a /\ disposal[d].status = "COMPLETED"
  /\ \A d \in Disposals :
       disposal[d].status = "COMPLETED" => asset[disposal[d].asset].status = "DISPOSED"
  /\ \A d, e \in Disposals :
       /\ disposal[d].status = "COMPLETED" /\ disposal[e].status = "COMPLETED"
       /\ disposal[d].asset = disposal[e].asset
       => d = e

\* The books and the register agree on capitalization: an asset is past DRAFT exactly
\* when its acquisition was capitalized, so no workflow reaches an asset without a cost
\* basis and none is capitalized twice (acquisition.py capitalize_acquisition).
CapitalizedOnce ==
  \A a \in Assets :
    acquisition[a] = "CAPITALIZED" <=> asset[a].status \in Movable \cup {"DISPOSED"}

\* Whoever asked for a disposal never approved it, to whatever state it moved on
\* (disposals/services.py approve_disposal; CHECK disposal_separation_of_duties).
SeparationOfDuties ==
  \A d \in Disposals :
    disposal[d].status \in {"APPROVED", "COMPLETED"} =>
      disposal[d].approver \in Users \ {disposal[d].requester}

\* A step in which an asset moves as a transfer says.
CompletesTransfer(t) == transfer[t].status = "APPROVED" /\ transfer'[t].status = "COMPLETED"

PlacementMoves ==
  /\ \A t \in Transfers : CompletesTransfer(t) =>
       /\ asset[transfer[t].asset].place = transfer[t].from
       /\ asset'[transfer[t].asset].place = transfer[t].to
  /\ \A a \in Assets : asset[a].status = "ACTIVE" /\ asset'[a].place # asset[a].place =>
       \/ \E t \in Transfers : CompletesTransfer(t) /\ transfer[t].asset = a
       \/ corrections'[a] = corrections[a] + 1

\* Placement moves as it was approved.  A transfer completes only if the asset is still
\* where it was when the transfer was requested, so it never overwrites a newer placement,
\* a correction's included; and an ACTIVE asset's placement changes in no other way than
\* by a transfer or by a correction that leaves its event (docs/business-rules.md:81,83;
\* complete_transfer against update_asset, assign_asset and AssetAdmin.save_model).
ActivePlacementMovesByTransfer == [][PlacementMoves]_vars

\* A step that rewrites no closed row.
HistoryStays ==
  /\ \A a \in Assets :
       asset[a].status = "DISPOSED" => asset'[a].status = "DISPOSED" /\ custody'[a] = custody[a]
  /\ \A a \in Assets : acquisition[a] = "CAPITALIZED" => acquisition'[a] = "CAPITALIZED"
  /\ \A t \in Transfers :
       transfer[t].status \in {"COMPLETED", "REJECTED", "CANCELLED"} => transfer'[t] = transfer[t]
  /\ \A w \in WorkOrders :
       order[w].status \in {"COMPLETED", "CANCELLED"} => order'[w] = order[w]
  /\ \A d \in Disposals :
       disposal[d].status \in {"COMPLETED", "REJECTED", "CANCELLED"} => disposal'[d] = disposal[d]

\* What is over stays over: DISPOSED assets, capitalized acquisitions and the closed rows
\* of every workflow are history that no later call rewrites.
HistoryIsFinal == [][HistoryStays]_vars

\* docs/business-rules.md:91 "A disposed asset cannot have an active plan."
DisposedHasNoActivePlan ==
  \A p \in Plans : plan[p].active => asset[plan[p].asset].status # "DISPOSED"
=============================================================================
