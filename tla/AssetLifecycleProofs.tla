------------------------ MODULE AssetLifecycleProofs ------------------------
(***************************************************************************)
(* Proofs about AssetLifecycle, for any number of assets, users, transfers, *)
(* work orders, maintenance plans and disposals.                           *)
(***************************************************************************)
EXTENDS AssetLifecycle, TLAPS

-----------------------------------------------------------------------------
(* Type correctness *)

\* Writing one field of an asset's row keeps the shape of the register, whatever the row
\* of the workflow names (a name outside Assets changes nothing).
LEMMA SetAssetStatusTypeOK ==
  ASSUME RowsTyped, NEW a, NEW s \in AssetStatus, SetAssetStatus(a, s)
  PROVE  asset' \in [Assets -> AssetRow]
<1>1. CASE a \in Assets
  BY <1>1 DEF RowsTyped, SetAssetStatus, AssetRow
<1>2. CASE a \notin Assets
  BY <1>2 DEF RowsTyped, SetAssetStatus, AssetRow
<1> QED
  BY <1>1, <1>2

LEMMA InitTypeOK == Init => RowsTyped
  BY DEF Init, RowsTyped, AssetRow, AssetStatus, Uncapitalized, Movable, AcquisitionStatus,
         TransferRow, OpenTransferStates, WorkOrderRow, OpenOrderStates, ActiveOrderStates,
         PlanRow, DisposalRow, OpenDisposalStates

LEMMA AssetNextTypeOK == RowsTyped /\ AssetNext => RowsTyped'
<1> SUFFICES ASSUME RowsTyped, AssetNext PROVE RowsTyped'
  OBVIOUS
<1> USE DEF RowsTyped, AssetRow, AssetStatus, Uncapitalized, Movable, SetAssetStatus
<1>1. ASSUME NEW a \in Assets, NEW p \in Places, CreateAsset(a, p) PROVE RowsTyped'
  BY <1>1 DEF CreateAsset
<1>2. ASSUME NEW a \in Assets, NEW p \in Places, UpdateAsset(a, p) PROVE RowsTyped'
  BY <1>2 DEF UpdateAsset
<1>3. ASSUME NEW a \in Assets, NEW p \in Places, AssignAsset(a, p) PROVE RowsTyped'
  BY <1>3 DEF AssignAsset
<1>4. ASSUME NEW a \in Assets, NEW s \in AcquisitionStatus,
             CreateAcquisition(a, s) \/ UpdateAcquisition(a, s)
      PROVE RowsTyped'
  BY <1>4 DEF CreateAcquisition, UpdateAcquisition
<1>5. ASSUME NEW a \in Assets, CapitalizeAcquisition(a) PROVE RowsTyped'
  BY <1>5 DEF CapitalizeAcquisition, AcquisitionStatus
<1>6. ASSUME NEW a \in Assets, ReturnAsset(a) PROVE RowsTyped'
  BY <1>6 DEF ReturnAsset
<1> QED
  BY <1>1, <1>2, <1>3, <1>4, <1>5, <1>6 DEF AssetNext

LEMMA TransferNextTypeOK == RowsTyped /\ TransferNext => RowsTyped'
<1> SUFFICES ASSUME RowsTyped, TransferNext PROVE RowsTyped'
  OBVIOUS
<1> USE DEF RowsTyped, TransferRow, OpenTransferStates
<1>1. ASSUME NEW t \in Transfers, NEW a \in Assets, NEW p \in Places, RequestTransfer(t, a, p)
      PROVE RowsTyped'
  BY <1>1 DEF RequestTransfer, AssetRow
<1>2. ASSUME NEW t \in Transfers, ApproveTransfer(t) \/ RejectTransfer(t) \/ CancelTransfer(t)
      PROVE RowsTyped'
  BY <1>2 DEF ApproveTransfer, RejectTransfer, CancelTransfer, TransitionTransfer
<1>3. ASSUME NEW t \in Transfers, CompleteTransfer(t) PROVE RowsTyped'
  <2>1. transfer[t].to \in Places \cup {None}
    OBVIOUS
  <2>2. asset' \in [Assets -> AssetRow]
    BY <1>3, <2>1, ZenonT(60) DEF CompleteTransfer, AssetRow
  <2>3. transfer' \in [Transfers -> TransferRow]
    BY <1>3 DEF CompleteTransfer
  <2> QED
    BY <1>3, <2>2, <2>3 DEF CompleteTransfer
<1> QED
  BY <1>1, <1>2, <1>3 DEF TransferNext

LEMMA WorkOrderNextTypeOK == RowsTyped /\ WorkOrderNext => RowsTyped'
<1> SUFFICES ASSUME RowsTyped, WorkOrderNext PROVE RowsTyped'
  OBVIOUS
<1> DEFINE OrdersTyped == order \in [WorkOrders -> WorkOrderRow]
<1> USE DEF WorkOrderRow, OpenOrderStates, ActiveOrderStates
<1>0. order \in [WorkOrders -> WorkOrderRow]
  BY DEF RowsTyped
<1>1. ASSUME NEW w \in WorkOrders, NEW a \in Assets, CreateWorkOrder(w, a) PROVE RowsTyped'
  BY <1>1 DEF CreateWorkOrder, RowsTyped
<1>2. ASSUME NEW w \in WorkOrders, AssignWorkOrder(w) PROVE RowsTyped'
  BY <1>2 DEF AssignWorkOrder, RowsTyped
<1>3. ASSUME NEW w \in WorkOrders, StartWorkOrder(w) PROVE RowsTyped'
  <2>1. asset' \in [Assets -> AssetRow]
    BY <1>3, SetAssetStatusTypeOK DEF StartWorkOrder, RowsTyped, AssetStatus, Movable
  <2>2. OrdersTyped'
    BY <1>0, <1>3 DEF StartWorkOrder
  <2> QED
    BY <1>3, <2>1, <2>2 DEF StartWorkOrder, RowsTyped
<1>4. ASSUME NEW w \in WorkOrders, RestoreAssetIfNoActiveWork(w)
      PROVE asset' \in [Assets -> AssetRow]
  BY <1>4, SetAssetStatusTypeOK DEF RestoreAssetIfNoActiveWork, RowsTyped, AssetStatus, Movable
<1>5. ASSUME NEW w \in WorkOrders, CompleteWorkOrder(w) PROVE RowsTyped'
  <2>1. OrdersTyped'
    BY <1>0, <1>5 DEF CompleteWorkOrder
  <2> QED
    BY <1>4, <1>5, <2>1 DEF CompleteWorkOrder, RowsTyped
<1>6. ASSUME NEW w \in WorkOrders, CancelWorkOrder(w) PROVE RowsTyped'
  <2>1. OrdersTyped'
    BY <1>0, <1>6 DEF CancelWorkOrder
  <2> QED
    BY <1>4, <1>6, <2>1 DEF CancelWorkOrder, RowsTyped
<1> QED
  BY <1>1, <1>2, <1>3, <1>5, <1>6 DEF WorkOrderNext

LEMMA PlanNextTypeOK == RowsTyped /\ PlanNext => RowsTyped'
<1> SUFFICES ASSUME RowsTyped, PlanNext PROVE RowsTyped'
  OBVIOUS
<1> USE DEF RowsTyped, PlanRow
<1>1. ASSUME NEW p \in Plans, NEW a \in Assets, NEW active \in BOOLEAN,
             CreateMaintenancePlan(p, a, active)
      PROVE RowsTyped'
  BY <1>1 DEF CreateMaintenancePlan
<1>2. ASSUME NEW p \in Plans, ReadMaintenancePlan(p) PROVE RowsTyped'
  BY <1>2, ZenonT(60) DEF ReadMaintenancePlan
<1>3. ASSUME NEW p \in Plans, NEW active \in BOOLEAN, UpdateMaintenancePlan(p, active)
      PROVE RowsTyped'
  <2> DEFINE kept == IF active /\ ~plan[p].allowed THEN plan[p].active ELSE active
  <2>1. kept \in BOOLEAN
    OBVIOUS
  <2>2. plan' = [plan EXCEPT ![p] = [plan[p] EXCEPT !.locked = FALSE, !.allowed = FALSE,
                                                    !.active = kept]]
    BY <1>3 DEF UpdateMaintenancePlan
  <2>3. UNCHANGED <<asset, acquisition, custody, transfer, order, disposal>>
    BY <1>3 DEF UpdateMaintenancePlan
  <2> HIDE DEF kept
  <2>4. plan' \in [Plans -> PlanRow]
    BY <2>1, <2>2
  <2> QED
    BY <2>3, <2>4
<1> QED
  BY <1>1, <1>2, <1>3 DEF PlanNext

LEMMA DisposalNextTypeOK == RowsTyped /\ DisposalNext => RowsTyped'
<1> SUFFICES ASSUME RowsTyped, DisposalNext PROVE RowsTyped'
  OBVIOUS
<1> USE DEF RowsTyped, DisposalRow, OpenDisposalStates
<1>1. ASSUME NEW d \in Disposals, NEW a \in Assets, NEW u \in Users, CreateDisposal(d, a, u)
      PROVE RowsTyped'
  BY <1>1 DEF CreateDisposal
<1>2. ASSUME NEW d \in Disposals, NEW u \in Users, ApproveDisposal(d, u) PROVE RowsTyped'
  BY <1>2, ZenonT(60) DEF ApproveDisposal
<1>3. ASSUME NEW d \in Disposals, SubmitDisposal(d) \/ RejectDisposal(d) \/ CancelDisposal(d)
      PROVE RowsTyped'
  BY <1>3 DEF SubmitDisposal, RejectDisposal, CancelDisposal
<1>4. ASSUME NEW d \in Disposals, CompleteDisposal(d) PROVE RowsTyped'
  <2>1. asset' \in [Assets -> AssetRow]
    BY <1>4, SetAssetStatusTypeOK DEF CompleteDisposal, AssetStatus
  <2> QED
    BY <1>4, <2>1 DEF CompleteDisposal
<1> QED
  BY <1>1, <1>2, <1>3, <1>4 DEF DisposalNext

LEMMA StutterTypeOK == RowsTyped /\ UNCHANGED vars => RowsTyped'
  BY DEF RowsTyped, vars, rows

\* What the admin site does to the register: it inserts drafts and moves placements.
LEMMA AdminNextEffect ==
  ASSUME RowsTyped, AdminNext
  PROVE  /\ UNCHANGED <<acquisition, custody, transfer, order, plan, disposal>>
         /\ asset' \in [Assets -> AssetRow]
         /\ \A b \in Assets : \/ asset'[b].status = asset[b].status
                              \/ asset[b].status = "ABSENT" /\ asset'[b].status = "DRAFT"
         /\ CorrectionsTyped =>
              \A b \in Assets : asset[b].status = "ACTIVE" /\ asset'[b].place # asset[b].place =>
                corrections'[b] = corrections[b] + 1
<1> USE DEF RowsTyped, AssetRow, AssetStatus, Uncapitalized
<1>1. ASSUME NEW a \in Assets, NEW p \in Places, AdminCreateAsset(a, p)
      PROVE  /\ asset' \in [Assets -> AssetRow]
             /\ \A b \in Assets : \/ asset'[b] = asset[b]
                                  \/ asset[b].status = "ABSENT" /\ asset'[b].status = "DRAFT"
  BY <1>1 DEF AdminCreateAsset
<1>2. ASSUME NEW a \in Assets, NEW p \in Places, CorrectAsset(a, p)
      PROVE  /\ asset' \in [Assets -> AssetRow]
             /\ \A b \in Assets : asset'[b].status = asset[b].status
             /\ \A b \in Assets : asset'[b].place # asset[b].place => b = a
             /\ CorrectionsTyped => corrections'[a] = corrections[a] + 1
  BY <1>2 DEF CorrectAsset, CorrectionsTyped
<1>3. UNCHANGED <<acquisition, custody, transfer, order, plan, disposal>>
  BY DEF AdminNext, AdminCreateAsset, CorrectAsset
<1>4. CASE \E a \in Assets, p \in Places : AdminCreateAsset(a, p)
  BY <1>1, <1>3, <1>4
<1>5. CASE \E a \in Assets, p \in Places : CorrectAsset(a, p)
  BY <1>2, <1>3, <1>5
<1> QED
  BY <1>4, <1>5 DEF AdminNext

LEMMA NextRowsTyped == RowsTyped /\ [Next]_vars => RowsTyped'
<1>1. RowsTyped /\ AdminNext => RowsTyped'
  BY AdminNextEffect DEF RowsTyped
<1> QED
  BY <1>1, AssetNextTypeOK, TransferNextTypeOK, WorkOrderNextTypeOK, PlanNextTypeOK,
     DisposalNextTypeOK, StutterTypeOK DEF Next, ServiceNext

LEMMA InitCorrections == Init => CorrectionsTyped
  BY CorrectionsAreBounded DEF Init, CorrectionsTyped

LEMMA NextCorrections == CorrectionsTyped /\ [Next]_vars => CorrectionsTyped'
<1> USE DEF CorrectionsTyped
<1>1. ASSUME CorrectionsTyped, NEW a \in Assets, NEW p \in Places, CorrectAsset(a, p)
      PROVE CorrectionsTyped'
  BY <1>1, CorrectionsAreBounded DEF CorrectAsset
<1> QED
  BY <1>1 DEF Next, ServiceNext, AdminNext, AdminCreateAsset, vars

\* Every row keeps the shape the tables give it.
THEOREM TypeCorrect == Spec => []TypeOK
<1>1. RowsTyped /\ CorrectionsTyped => TypeOK
  BY DEF TypeOK
<1> QED
  BY <1>1, InitTypeOK, InitCorrections, NextRowsTyped, NextCorrections, PTL DEF Spec

-----------------------------------------------------------------------------
(* What the safety invariants rest on: every row of a workflow names a registered *)
(* asset, and the statuses no service writes are never reached. *)

NamesAssets ==
  /\ \A t \in Transfers : transfer[t].status # "ABSENT" => transfer[t].asset \in Assets
  /\ \A w \in WorkOrders : order[w].status # "ABSENT" => order[w].asset \in Assets
  /\ \A d \in Disposals : disposal[d].status # "ABSENT" => disposal[d].asset \in Assets

StatusesInUse ==
  \A a \in Assets : asset[a].status \in {"ABSENT", "DRAFT", "ACTIVE", "IN_MAINTENANCE", "DISPOSED"}

Shape == RowsTyped /\ NamesAssets /\ StatusesInUse

\* a step that writes one asset's status leaves every other asset's alone
LEMMA SetAssetStatusEffect ==
  ASSUME RowsTyped, NEW a \in Assets, NEW s, SetAssetStatus(a, s)
  PROVE  \A b \in Assets : asset'[b].status = IF b = a THEN s ELSE asset[b].status
  BY DEF RowsTyped, AssetRow, SetAssetStatus

\* a step that writes one asset's placement leaves every status alone
LEMMA PlacementEffect ==
  ASSUME RowsTyped, NEW a, NEW p, asset' = [asset EXCEPT ![a].place = p]
  PROVE  \A b \in Assets : asset'[b].status = asset[b].status
  BY DEF RowsTyped, AssetRow

StatusesKept == \A b \in Assets : asset'[b].status = asset[b].status

LEMMA InitShape == Init => Shape
  BY InitTypeOK DEF Init, Shape, NamesAssets, StatusesInUse

LEMMA AssetNextShape == Shape /\ AssetNext => Shape'
<1> SUFFICES ASSUME Shape, AssetNext PROVE Shape'
  OBVIOUS
<1>1. RowsTyped /\ RowsTyped'
  BY AssetNextTypeOK DEF Shape
<1>2. UNCHANGED <<transfer, order, disposal>>
  BY DEF AssetNext, CreateAsset, UpdateAsset, AssignAsset, CreateAcquisition,
         UpdateAcquisition, CapitalizeAcquisition, ReturnAsset
<1>3. NamesAssets'
  BY <1>2 DEF Shape, NamesAssets
<1> USE DEF Shape, StatusesInUse
<1>4. ASSUME NEW a \in Assets, NEW p \in Places, CreateAsset(a, p) PROVE StatusesInUse'
  BY <1>1, <1>4 DEF CreateAsset, RowsTyped
<1>5. ASSUME NEW a \in Assets, NEW p \in Places, UpdateAsset(a, p) \/ AssignAsset(a, p)
      PROVE StatusesInUse'
  BY <1>1, <1>5, PlacementEffect DEF UpdateAsset, AssignAsset
<1>6. ASSUME NEW a \in Assets, CapitalizeAcquisition(a) PROVE StatusesInUse'
  <2>1. \A b \in Assets : asset'[b].status = IF b = a THEN "ACTIVE" ELSE asset[b].status
    BY <1>1, <1>6, SetAssetStatusEffect DEF CapitalizeAcquisition
  <2> QED
    BY <2>1
<1>7. ASSUME UNCHANGED asset PROVE StatusesInUse'
  BY <1>7
<1>8. StatusesInUse'
  BY <1>4, <1>5, <1>6, <1>7
     DEF AssetNext, CreateAcquisition, UpdateAcquisition, ReturnAsset
<1> QED
  BY <1>1, <1>3, <1>8

LEMMA TransferNextShape == Shape /\ TransferNext => Shape' /\ StatusesKept
<1> SUFFICES ASSUME Shape, TransferNext PROVE Shape' /\ StatusesKept
  OBVIOUS
<1>1. RowsTyped /\ RowsTyped'
  BY TransferNextTypeOK DEF Shape
<1> USE DEF Shape, NamesAssets, StatusesKept
<1>2. ASSUME NEW t \in Transfers, NEW a \in Assets, NEW p \in Places, RequestTransfer(t, a, p)
      PROVE NamesAssets' /\ StatusesKept
  BY <1>1, <1>2 DEF RequestTransfer, RowsTyped
<1>3. ASSUME NEW t \in Transfers, NEW s, TransitionTransfer(t, s) PROVE NamesAssets' /\ StatusesKept
  BY <1>1, <1>3 DEF TransitionTransfer, RowsTyped, TransferRow
<1>4. ASSUME NEW t \in Transfers, CompleteTransfer(t) PROVE NamesAssets' /\ StatusesKept
  <2>1. NamesAssets'
    BY <1>1, <1>4 DEF CompleteTransfer, RowsTyped, TransferRow
  <2>2. StatusesKept
    BY <1>1, <1>4, PlacementEffect DEF CompleteTransfer
  <2> QED
    BY <2>1, <2>2
<1>5. NamesAssets' /\ StatusesKept
  BY <1>2, <1>3, <1>4 DEF TransferNext, ApproveTransfer, RejectTransfer, CancelTransfer
<1> QED
  BY <1>1, <1>5 DEF StatusesInUse

\* closing an order gives its asset back or leaves it alone
LEMMA RestoreEffect ==
  ASSUME RowsTyped, NEW w \in WorkOrders, order[w].asset \in Assets, RestoreAssetIfNoActiveWork(w)
  PROVE  \/ /\ asset[order[w].asset].status = "IN_MAINTENANCE"
            /\ \A v \in WorkOrders \ {w} :
                  order[v].asset = order[w].asset => order[v].status \notin ActiveOrderStates
            /\ \A b \in Assets : asset'[b].status =
                  IF b = order[w].asset THEN "ACTIVE" ELSE asset[b].status
         \/ /\ \/ asset[order[w].asset].status # "IN_MAINTENANCE"
               \/ \E v \in WorkOrders \ {w} :
                     order[v].asset = order[w].asset /\ order[v].status \in ActiveOrderStates
            /\ StatusesKept
<1> DEFINE a == order[w].asset
           others == {v \in WorkOrders \ {w} :
                        order[v].asset = a /\ order[v].status \in ActiveOrderStates}
<1>1. CASE asset[a].status = "IN_MAINTENANCE" /\ others = {}
  <2>1. SetAssetStatus(a, "ACTIVE")
    BY <1>1 DEF RestoreAssetIfNoActiveWork
  <2> QED
    BY <1>1, <2>1, SetAssetStatusEffect
<1>2. CASE ~(asset[a].status = "IN_MAINTENANCE" /\ others = {})
  BY <1>2 DEF RestoreAssetIfNoActiveWork, StatusesKept
<1> QED
  BY <1>1, <1>2

LEMMA WorkOrderNextShape == Shape /\ WorkOrderNext => Shape'
<1> SUFFICES ASSUME Shape, WorkOrderNext PROVE Shape'
  OBVIOUS
<1>1. RowsTyped /\ RowsTyped'
  BY WorkOrderNextTypeOK DEF Shape
<1> USE DEF Shape, NamesAssets, StatusesInUse, StatusesKept
<1>2. ASSUME NEW w \in WorkOrders, NEW a \in Assets, CreateWorkOrder(w, a)
      PROVE NamesAssets' /\ StatusesInUse'
  BY <1>1, <1>2 DEF CreateWorkOrder, RowsTyped
<1>3. ASSUME NEW w \in WorkOrders, AssignWorkOrder(w) PROVE NamesAssets' /\ StatusesInUse'
  BY <1>1, <1>3 DEF AssignWorkOrder, RowsTyped, WorkOrderRow
<1>4. ASSUME NEW w \in WorkOrders, StartWorkOrder(w) PROVE NamesAssets' /\ StatusesInUse'
  <2>1. NamesAssets'
    BY <1>1, <1>4 DEF StartWorkOrder, RowsTyped, WorkOrderRow
  <2>2. order[w].asset \in Assets
    BY <1>4 DEF StartWorkOrder
  <2>3. StatusesInUse'
    BY <1>1, <1>4, <2>2, SetAssetStatusEffect DEF StartWorkOrder
  <2> QED
    BY <2>1, <2>3
<1>5. ASSUME NEW w \in WorkOrders, CompleteWorkOrder(w) \/ CancelWorkOrder(w)
      PROVE NamesAssets' /\ StatusesInUse'
  <2>1. NamesAssets'
    <3>1. CASE CompleteWorkOrder(w)
      BY <1>1, <3>1 DEF CompleteWorkOrder, RowsTyped, WorkOrderRow
    <3>2. CASE CancelWorkOrder(w)
      BY <1>1, <3>2 DEF CancelWorkOrder, RowsTyped, WorkOrderRow, OpenOrderStates, ActiveOrderStates
    <3> QED
      BY <1>5, <3>1, <3>2
  <2>2. order[w].asset \in Assets /\ RestoreAssetIfNoActiveWork(w)
    BY <1>5 DEF CompleteWorkOrder, CancelWorkOrder, OpenOrderStates, ActiveOrderStates
  <2>3. StatusesInUse'
    BY <1>1, <2>2, RestoreEffect
  <2> QED
    BY <2>1, <2>3
<1>6. NamesAssets' /\ StatusesInUse'
  BY <1>2, <1>3, <1>4, <1>5 DEF WorkOrderNext
<1> QED
  BY <1>1, <1>6

LEMMA PlanNextShape ==
  Shape /\ PlanNext => Shape' /\ UNCHANGED <<asset, acquisition, custody, transfer, order, disposal>>
<1> SUFFICES ASSUME Shape, PlanNext
             PROVE Shape' /\ UNCHANGED <<asset, acquisition, custody, transfer, order, disposal>>
  OBVIOUS
<1>1. UNCHANGED <<asset, acquisition, custody, transfer, order, disposal>>
  BY DEF PlanNext, CreateMaintenancePlan, ReadMaintenancePlan, UpdateMaintenancePlan
<1> QED
  BY <1>1, PlanNextTypeOK DEF Shape, NamesAssets, StatusesInUse

LEMMA DisposalNextShape == Shape /\ DisposalNext => Shape'
<1> SUFFICES ASSUME Shape, DisposalNext PROVE Shape'
  OBVIOUS
<1>1. RowsTyped /\ RowsTyped'
  BY DisposalNextTypeOK DEF Shape
<1> USE DEF Shape, NamesAssets, StatusesInUse
<1>2. ASSUME NEW d \in Disposals, NEW a \in Assets, NEW u \in Users, CreateDisposal(d, a, u)
      PROVE NamesAssets' /\ StatusesInUse'
  BY <1>1, <1>2 DEF CreateDisposal, RowsTyped
<1>3. ASSUME NEW d \in Disposals, NEW u \in Users, ApproveDisposal(d, u)
      PROVE NamesAssets' /\ StatusesInUse'
  BY <1>1, <1>3 DEF ApproveDisposal, RowsTyped, DisposalRow
<1>4. ASSUME NEW d \in Disposals, SubmitDisposal(d) \/ RejectDisposal(d) \/ CancelDisposal(d)
      PROVE NamesAssets' /\ StatusesInUse'
  <2>1. CASE SubmitDisposal(d)
    BY <1>1, <2>1 DEF SubmitDisposal, RowsTyped, DisposalRow
  <2>2. CASE RejectDisposal(d)
    BY <1>1, <2>2 DEF RejectDisposal, RowsTyped, DisposalRow
  <2>3. CASE CancelDisposal(d)
    BY <1>1, <2>3 DEF CancelDisposal, RowsTyped, DisposalRow, OpenDisposalStates
  <2> QED
    BY <1>4, <2>1, <2>2, <2>3
<1>5. ASSUME NEW d \in Disposals, CompleteDisposal(d) PROVE NamesAssets' /\ StatusesInUse'
  <2>1. NamesAssets'
    BY <1>1, <1>5 DEF CompleteDisposal, RowsTyped, DisposalRow
  <2>2. disposal[d].asset \in Assets
    BY <1>5 DEF CompleteDisposal
  <2>3. StatusesInUse'
    BY <1>1, <1>5, <2>2, SetAssetStatusEffect DEF CompleteDisposal
  <2> QED
    BY <2>1, <2>3
<1>6. NamesAssets' /\ StatusesInUse'
  BY <1>2, <1>3, <1>4, <1>5 DEF DisposalNext
<1> QED
  BY <1>1, <1>6

LEMMA AdminNextShape == Shape /\ AdminNext => Shape'
<1> SUFFICES ASSUME Shape, AdminNext PROVE Shape'
  OBVIOUS
<1>1. RowsTyped /\ RowsTyped'
  BY NextRowsTyped DEF Shape, Next
<1> QED
  BY <1>1, AdminNextEffect DEF Shape, NamesAssets, StatusesInUse

LEMMA ShapeInductive == Shape /\ [Next]_vars => Shape'
<1> SUFFICES ASSUME Shape, [Next]_vars PROVE Shape'
  OBVIOUS
<1>1. CASE Next
  BY <1>1, AssetNextShape, TransferNextShape, WorkOrderNextShape, PlanNextShape,
     DisposalNextShape, AdminNextShape DEF Next, ServiceNext
<1>2. CASE UNCHANGED vars
  BY <1>2, StutterTypeOK DEF Shape, NamesAssets, StatusesInUse, vars, rows
<1> QED
  BY <1>1, <1>2

-----------------------------------------------------------------------------
(* Maintenance *)

MaintenanceInv == Shape /\ MaintenanceMatchesOrders

\* a step that neither writes an order nor moves an asset into or out of maintenance
LEMMA MaintenanceFrame ==
  ASSUME MaintenanceInv, UNCHANGED order,
         \A a \in Assets : asset[a].status = "IN_MAINTENANCE" <=> asset'[a].status = "IN_MAINTENANCE"
  PROVE  MaintenanceMatchesOrders'
  BY DEF MaintenanceInv, Shape, NamesAssets, MaintenanceMatchesOrders

LEMMA AssetNextMaintenance == MaintenanceInv /\ AssetNext => MaintenanceMatchesOrders'
<1> SUFFICES ASSUME MaintenanceInv, AssetNext PROVE MaintenanceMatchesOrders'
  OBVIOUS
<1>1. Shape /\ RowsTyped
  BY DEF MaintenanceInv, Shape
<1>2. UNCHANGED order
  BY DEF AssetNext, CreateAsset, UpdateAsset, AssignAsset, CreateAcquisition,
         UpdateAcquisition, CapitalizeAcquisition, ReturnAsset
<1> DEFINE Kept == \A a \in Assets :
                     asset[a].status = "IN_MAINTENANCE" <=> asset'[a].status = "IN_MAINTENANCE"
<1>3. ASSUME NEW a \in Assets, NEW p \in Places, CreateAsset(a, p) PROVE Kept
  BY <1>1, <1>3 DEF CreateAsset, RowsTyped
<1>4. ASSUME NEW a \in Assets, NEW p \in Places, UpdateAsset(a, p) \/ AssignAsset(a, p)
      PROVE Kept
  BY <1>1, <1>4, PlacementEffect DEF UpdateAsset, AssignAsset
<1>5. ASSUME NEW a \in Assets, CapitalizeAcquisition(a) PROVE Kept
  <2>1. \A b \in Assets : asset'[b].status = IF b = a THEN "ACTIVE" ELSE asset[b].status
    BY <1>1, <1>5, SetAssetStatusEffect DEF CapitalizeAcquisition
  <2> QED
    BY <1>5, <2>1 DEF CapitalizeAcquisition, Uncapitalized
<1>6. Kept
  BY <1>3, <1>4, <1>5 DEF AssetNext, CreateAcquisition, UpdateAcquisition, ReturnAsset
<1> QED
  BY <1>2, <1>6, MaintenanceFrame

LEMMA WorkOrderNextMaintenance == MaintenanceInv /\ WorkOrderNext => MaintenanceMatchesOrders'
<1> SUFFICES ASSUME MaintenanceInv, WorkOrderNext PROVE MaintenanceMatchesOrders'
  OBVIOUS
<1>1. RowsTyped /\ NamesAssets /\ StatusesInUse /\ MaintenanceMatchesOrders
  BY DEF MaintenanceInv, Shape
<1> USE DEF MaintenanceMatchesOrders, NamesAssets, ActiveOrderStates
<1>2. ASSUME NEW w \in WorkOrders, NEW a \in Assets, CreateWorkOrder(w, a)
      PROVE MaintenanceMatchesOrders'
  BY <1>1, <1>2 DEF CreateWorkOrder, RowsTyped
<1>3. ASSUME NEW w \in WorkOrders, AssignWorkOrder(w) PROVE MaintenanceMatchesOrders'
  BY <1>1, <1>3 DEF AssignWorkOrder, RowsTyped, WorkOrderRow
<1>4. ASSUME NEW w \in WorkOrders, StartWorkOrder(w) PROVE MaintenanceMatchesOrders'
  <2> DEFINE a == order[w].asset
  <2>1. a \in Assets
    BY <1>1, <1>4 DEF StartWorkOrder
  <2>2. \A b \in Assets :
          asset'[b].status = IF b = a THEN "IN_MAINTENANCE" ELSE asset[b].status
    BY <1>1, <1>4, <2>1, SetAssetStatusEffect DEF StartWorkOrder, Movable, StatusesInUse
  <2>3. \A v \in WorkOrders : /\ order'[v].asset = order[v].asset
                              /\ order'[v].status = IF v = w THEN "IN_PROGRESS" ELSE order[v].status
    BY <1>1, <1>4 DEF StartWorkOrder, RowsTyped, WorkOrderRow
  <2> QED
    BY <1>1, <2>1, <2>2, <2>3
<1>5. ASSUME NEW w \in WorkOrders, NEW s \in {"COMPLETED", "CANCELLED"},
             order[w].status \in OpenOrderStates,
             order' = [order EXCEPT ![w].status = s],
             RestoreAssetIfNoActiveWork(w)
      PROVE  MaintenanceMatchesOrders'
  <2>1. order[w].asset \in Assets
    BY <1>1, <1>5 DEF OpenOrderStates
  <2>2. \A v \in WorkOrders : /\ order'[v].asset = order[v].asset
                              /\ order'[v].status = IF v = w THEN s ELSE order[v].status
    BY <1>1, <1>5 DEF RowsTyped, WorkOrderRow
  <2>3. CASE /\ asset[order[w].asset].status = "IN_MAINTENANCE"
             /\ \A v \in WorkOrders \ {w} :
                  order[v].asset = order[w].asset => order[v].status \notin ActiveOrderStates
             /\ \A b \in Assets : asset'[b].status =
                  IF b = order[w].asset THEN "ACTIVE" ELSE asset[b].status
    BY <1>1, <2>1, <2>2, <2>3
  <2>4. CASE /\ \/ asset[order[w].asset].status # "IN_MAINTENANCE"
                \/ \E v \in WorkOrders \ {w} :
                     order[v].asset = order[w].asset /\ order[v].status \in ActiveOrderStates
             /\ StatusesKept
    BY <1>1, <2>1, <2>2, <2>4 DEF StatusesKept
  <2> QED
    BY <1>1, <1>5, <2>1, <2>3, <2>4, RestoreEffect
<1>6. ASSUME NEW w \in WorkOrders, CompleteWorkOrder(w) PROVE MaintenanceMatchesOrders'
  BY <1>5, <1>6 DEF CompleteWorkOrder, OpenOrderStates
<1>7. ASSUME NEW w \in WorkOrders, CancelWorkOrder(w) PROVE MaintenanceMatchesOrders'
  BY <1>5, <1>7 DEF CancelWorkOrder
<1> QED
  BY <1>2, <1>3, <1>4, <1>6, <1>7 DEF WorkOrderNext

LEMMA DisposalNextMaintenance == MaintenanceInv /\ DisposalNext => MaintenanceMatchesOrders'
<1> SUFFICES ASSUME MaintenanceInv, DisposalNext PROVE MaintenanceMatchesOrders'
  OBVIOUS
<1>1. RowsTyped /\ NamesAssets
  BY DEF MaintenanceInv, Shape
<1>2. UNCHANGED order
  BY DEF DisposalNext, CreateDisposal, ApproveDisposal, SubmitDisposal, RejectDisposal,
         CancelDisposal, CompleteDisposal
<1> DEFINE Kept == \A a \in Assets :
                     asset[a].status = "IN_MAINTENANCE" <=> asset'[a].status = "IN_MAINTENANCE"
<1>3. ASSUME NEW d \in Disposals, CompleteDisposal(d) PROVE Kept
  <2>1. disposal[d].asset \in Assets
    BY <1>1, <1>3 DEF CompleteDisposal, NamesAssets
  <2>2. \A b \in Assets : asset'[b].status =
          IF b = disposal[d].asset THEN "DISPOSED" ELSE asset[b].status
    BY <1>1, <1>3, <2>1, SetAssetStatusEffect DEF CompleteDisposal
  <2> QED
    BY <1>3, <2>2 DEF CompleteDisposal
<1>4. Kept
  BY <1>3 DEF DisposalNext, CreateDisposal, ApproveDisposal, SubmitDisposal, RejectDisposal,
              CancelDisposal
<1> QED
  BY <1>2, <1>4, MaintenanceFrame

LEMMA MaintenanceInductive == MaintenanceInv /\ [Next]_vars => MaintenanceInv'
<1> SUFFICES ASSUME MaintenanceInv, [Next]_vars PROVE MaintenanceInv'
  OBVIOUS
<1>1. Shape /\ Shape'
  BY ShapeInductive DEF MaintenanceInv
<1>2. CASE AssetNext
  BY <1>1, <1>2, AssetNextMaintenance DEF MaintenanceInv
<1>3. CASE TransferNext
  <2>1. StatusesKept /\ UNCHANGED order
    BY <1>1, <1>3, TransferNextShape
       DEF TransferNext, RequestTransfer, ApproveTransfer, RejectTransfer, CancelTransfer,
           TransitionTransfer, CompleteTransfer
  <2> QED
    BY <1>1, <2>1, MaintenanceFrame DEF StatusesKept, MaintenanceInv
<1>4. CASE WorkOrderNext
  BY <1>1, <1>4, WorkOrderNextMaintenance DEF MaintenanceInv
<1>5. CASE PlanNext
  BY <1>1, <1>5, PlanNextShape, MaintenanceFrame DEF MaintenanceInv
<1>6. CASE DisposalNext
  BY <1>1, <1>6, DisposalNextMaintenance DEF MaintenanceInv
<1>7. CASE UNCHANGED vars
  BY <1>1, <1>7, MaintenanceFrame DEF vars, rows, MaintenanceInv
<1>8. CASE AdminNext
  <2>1. UNCHANGED order /\ \A a \in Assets :
          asset[a].status = "IN_MAINTENANCE" <=> asset'[a].status = "IN_MAINTENANCE"
    BY <1>1, <1>8, AdminNextEffect DEF Shape
  <2> QED
    BY <1>1, <2>1, MaintenanceFrame DEF MaintenanceInv
<1> QED
  BY <1>2, <1>3, <1>4, <1>5, <1>6, <1>7, <1>8 DEF Next, ServiceNext

\* Orders and asset statuses agree, however many orders are open on one asset and in
\* whatever order they are started and closed (maintenance/services.py).
THEOREM MaintenanceCorrect == Spec => []MaintenanceMatchesOrders
<1>1. Init => MaintenanceInv
  BY InitShape DEF Init, MaintenanceInv, MaintenanceMatchesOrders
<1>2. MaintenanceInv => MaintenanceMatchesOrders
  BY DEF MaintenanceInv
<1> QED
  BY <1>1, <1>2, MaintenanceInductive, PTL DEF Spec

-----------------------------------------------------------------------------
(* Disposal: the uniqueness of the open disposal is what lets a completion close *)
(* everything; without it a second approved disposal would survive the first. *)

OneOpenDisposal ==
  \A d, e \in Disposals :
    /\ disposal[d].status \in OpenDisposalStates /\ disposal[e].status \in OpenDisposalStates
    /\ disposal[d].asset = disposal[e].asset
    => d = e

DisposalInv == Shape /\ OneOpenDisposal /\ DisposedIsClosed

\* a step that writes no disposal, moves no asset into or out of DISPOSED and opens
\* nothing on a disposed asset
LEMMA DisposalFrame ==
  ASSUME DisposalInv, UNCHANGED disposal,
         \A a \in Assets : asset[a].status = "DISPOSED" <=> asset'[a].status = "DISPOSED",
         \A a \in Assets : asset[a].status = "DISPOSED" =>
           ~custody'[a] /\ ~HasOpenTransfer(a)' /\ ~HasOpenOrder(a)'
  PROVE  OneOpenDisposal' /\ DisposedIsClosed'
  BY DEF DisposalInv, Shape, NamesAssets, OneOpenDisposal, DisposedIsClosed, HasOpenDisposal

LEMMA AssetNextDisposal == DisposalInv /\ AssetNext => OneOpenDisposal' /\ DisposedIsClosed'
<1> SUFFICES ASSUME DisposalInv, AssetNext PROVE OneOpenDisposal' /\ DisposedIsClosed'
  OBVIOUS
<1>1. RowsTyped /\ DisposedIsClosed
  BY DEF DisposalInv, Shape
<1>2. UNCHANGED <<transfer, order, disposal>>
  BY DEF AssetNext, CreateAsset, UpdateAsset, AssignAsset, CreateAcquisition,
         UpdateAcquisition, CapitalizeAcquisition, ReturnAsset
<1> DEFINE Kept == \A a \in Assets :
                     /\ asset[a].status = "DISPOSED" <=> asset'[a].status = "DISPOSED"
                     /\ asset[a].status = "DISPOSED" => custody'[a] = custody[a]
<1>3. ASSUME NEW a \in Assets, NEW p \in Places, CreateAsset(a, p) PROVE Kept
  BY <1>1, <1>3 DEF CreateAsset, RowsTyped
<1>4. ASSUME NEW a \in Assets, NEW p \in Places, UpdateAsset(a, p) PROVE Kept
  BY <1>1, <1>4, PlacementEffect DEF UpdateAsset
<1>5. ASSUME NEW a \in Assets, NEW p \in Places, AssignAsset(a, p) PROVE Kept
  <2>1. StatusesKept
    BY <1>1, <1>5, PlacementEffect DEF AssignAsset, StatusesKept
  <2> QED
    BY <1>1, <1>5, <2>1 DEF AssignAsset, StatusesKept, Movable, RowsTyped
<1>6. ASSUME NEW a \in Assets, CapitalizeAcquisition(a) PROVE Kept
  <2>1. \A b \in Assets : asset'[b].status = IF b = a THEN "ACTIVE" ELSE asset[b].status
    BY <1>1, <1>6, SetAssetStatusEffect DEF CapitalizeAcquisition
  <2> QED
    BY <1>6, <2>1 DEF CapitalizeAcquisition, Uncapitalized
<1>7. ASSUME NEW a \in Assets, ReturnAsset(a) PROVE Kept
  BY <1>1, <1>7 DEF ReturnAsset, Movable, RowsTyped
<1>8. Kept
  BY <1>3, <1>4, <1>5, <1>6, <1>7 DEF AssetNext, CreateAcquisition, UpdateAcquisition
<1>9. \A a \in Assets : asset[a].status = "DISPOSED" =>
         ~custody'[a] /\ ~HasOpenTransfer(a)' /\ ~HasOpenOrder(a)'
  BY <1>1, <1>2, <1>8 DEF DisposedIsClosed, HasOpenTransfer, HasOpenOrder
<1> QED
  BY <1>2, <1>8, <1>9, DisposalFrame

LEMMA TransferNextDisposal == DisposalInv /\ TransferNext => OneOpenDisposal' /\ DisposedIsClosed'
<1> SUFFICES ASSUME DisposalInv, TransferNext PROVE OneOpenDisposal' /\ DisposedIsClosed'
  OBVIOUS
<1>1. RowsTyped /\ DisposedIsClosed /\ StatusesKept
  BY TransferNextShape DEF DisposalInv, Shape
<1>2. UNCHANGED <<custody, order, disposal>>
  BY DEF TransferNext, RequestTransfer, ApproveTransfer, RejectTransfer, CancelTransfer,
         TransitionTransfer, CompleteTransfer
<1> DEFINE NoneOpened == \A a \in Assets :
             asset[a].status = "DISPOSED" /\ ~HasOpenTransfer(a) => ~HasOpenTransfer(a)'
<1> USE DEF HasOpenTransfer, OpenTransferStates
<1>3. ASSUME NEW t \in Transfers, NEW a \in Assets, NEW p \in Places, RequestTransfer(t, a, p)
      PROVE NoneOpened
  BY <1>1, <1>3 DEF RequestTransfer, RowsTyped, Movable
<1>4. ASSUME NEW t \in Transfers, NEW s \in {"APPROVED", "REJECTED", "CANCELLED"},
             TransitionTransfer(t, s)
      PROVE NoneOpened
  BY <1>1, <1>4 DEF TransitionTransfer, RowsTyped, TransferRow
<1>5. ASSUME NEW t \in Transfers, CompleteTransfer(t) PROVE NoneOpened
  BY <1>1, <1>5 DEF CompleteTransfer, RowsTyped, TransferRow
<1>6. NoneOpened
  BY <1>3, <1>4, <1>5 DEF TransferNext, ApproveTransfer, RejectTransfer, CancelTransfer
<1>7. \A a \in Assets : asset[a].status = "DISPOSED" =>
         ~custody'[a] /\ ~HasOpenTransfer(a)' /\ ~HasOpenOrder(a)'
  BY <1>1, <1>2, <1>6 DEF DisposedIsClosed, HasOpenOrder
<1> QED
  BY <1>1, <1>2, <1>7, DisposalFrame DEF StatusesKept

LEMMA WorkOrderNextDisposal == DisposalInv /\ WorkOrderNext => OneOpenDisposal' /\ DisposedIsClosed'
<1> SUFFICES ASSUME DisposalInv, WorkOrderNext PROVE OneOpenDisposal' /\ DisposedIsClosed'
  OBVIOUS
<1>1. RowsTyped /\ NamesAssets /\ StatusesInUse /\ DisposedIsClosed
  BY DEF DisposalInv, Shape
<1>2. UNCHANGED <<custody, transfer, disposal>>
  BY DEF WorkOrderNext, CreateWorkOrder, AssignWorkOrder, StartWorkOrder, CompleteWorkOrder,
         CancelWorkOrder
<1> DEFINE Kept == \A a \in Assets :
             /\ asset[a].status = "DISPOSED" <=> asset'[a].status = "DISPOSED"
             /\ asset[a].status = "DISPOSED" /\ ~HasOpenOrder(a) => ~HasOpenOrder(a)'
<1> USE DEF HasOpenOrder, OpenOrderStates, ActiveOrderStates, NamesAssets
<1>3. ASSUME NEW w \in WorkOrders, NEW a \in Assets, CreateWorkOrder(w, a) PROVE Kept
  BY <1>1, <1>3 DEF CreateWorkOrder, RowsTyped, Movable
<1>4. ASSUME NEW w \in WorkOrders, AssignWorkOrder(w) PROVE Kept
  BY <1>1, <1>4 DEF AssignWorkOrder, RowsTyped, WorkOrderRow
<1>5. ASSUME NEW w \in WorkOrders, StartWorkOrder(w) PROVE Kept
  <2> DEFINE a == order[w].asset
  <2>1. a \in Assets
    BY <1>1, <1>5 DEF StartWorkOrder
  <2>2. \A b \in Assets :
          asset'[b].status = IF b = a THEN "IN_MAINTENANCE" ELSE asset[b].status
    BY <1>1, <1>5, <2>1, SetAssetStatusEffect DEF StartWorkOrder, Movable, StatusesInUse
  <2>3. \A v \in WorkOrders : /\ order'[v].asset = order[v].asset
                              /\ order'[v].status = IF v = w THEN "IN_PROGRESS" ELSE order[v].status
    BY <1>1, <1>5 DEF StartWorkOrder, RowsTyped, WorkOrderRow
  <2> QED
    BY <1>1, <1>5, <2>1, <2>2, <2>3 DEF StartWorkOrder, Movable
<1>6. ASSUME NEW w \in WorkOrders, CompleteWorkOrder(w) \/ CancelWorkOrder(w) PROVE Kept
  <2>1. PICK s \in {"COMPLETED", "CANCELLED"} :
          /\ order[w].status \in OpenOrderStates
          /\ order' = [order EXCEPT ![w].status = s]
          /\ RestoreAssetIfNoActiveWork(w)
    BY <1>6 DEF CompleteWorkOrder, CancelWorkOrder
  <2>2. order[w].asset \in Assets
    BY <1>1, <2>1
  <2>3. \A v \in WorkOrders : /\ order'[v].asset = order[v].asset
                              /\ order'[v].status = IF v = w THEN s ELSE order[v].status
    BY <1>1, <2>1 DEF RowsTyped, WorkOrderRow
  <2>4. \A a \in Assets : asset[a].status = "DISPOSED" <=> asset'[a].status = "DISPOSED"
    BY <1>1, <2>1, <2>2, RestoreEffect DEF StatusesKept
  <2> QED
    BY <2>3, <2>4
<1>7. Kept
  BY <1>3, <1>4, <1>5, <1>6 DEF WorkOrderNext
<1>8. \A a \in Assets : asset[a].status = "DISPOSED" =>
         ~custody'[a] /\ ~HasOpenTransfer(a)' /\ ~HasOpenOrder(a)'
  BY <1>1, <1>2, <1>7 DEF DisposedIsClosed, HasOpenTransfer
<1> QED
  BY <1>2, <1>7, <1>8, DisposalFrame

LEMMA DisposalNextDisposal == DisposalInv /\ DisposalNext => OneOpenDisposal' /\ DisposedIsClosed'
<1> SUFFICES ASSUME DisposalInv, DisposalNext PROVE OneOpenDisposal' /\ DisposedIsClosed'
  OBVIOUS
<1>1. RowsTyped /\ NamesAssets /\ OneOpenDisposal /\ DisposedIsClosed
  BY DEF DisposalInv, Shape
<1>2. UNCHANGED <<custody, transfer, order>>
  BY DEF DisposalNext, CreateDisposal, ApproveDisposal, SubmitDisposal, RejectDisposal,
         CancelDisposal, CompleteDisposal
<1> DEFINE Goal == OneOpenDisposal' /\ DisposedIsClosed'
<1> USE DEF OneOpenDisposal, DisposedIsClosed, HasOpenDisposal, OpenDisposalStates, NamesAssets
<1>3. ASSUME NEW d \in Disposals, NEW a \in Assets, NEW u \in Users, CreateDisposal(d, a, u)
      PROVE Goal
  <2>1. \A e \in Disposals :
          /\ disposal'[e].asset = IF e = d THEN a ELSE disposal[e].asset
          /\ disposal'[e].status = IF e = d THEN "DRAFT" ELSE disposal[e].status
    BY <1>1, <1>3 DEF CreateDisposal, RowsTyped
  <2> QED
    BY <1>1, <1>2, <1>3, <2>1 DEF CreateDisposal, HasOpenTransfer, HasOpenOrder
<1>4. ASSUME NEW d \in Disposals, UNCHANGED asset,
             disposal[d].status \in OpenDisposalStates,
             NEW s \in {"PENDING_APPROVAL", "APPROVED", "REJECTED", "CANCELLED"},
             \A e \in Disposals :
               /\ disposal'[e].asset = disposal[e].asset
               /\ disposal'[e].status = IF e = d THEN s ELSE disposal[e].status
      PROVE  Goal
  BY <1>1, <1>2, <1>4 DEF HasOpenTransfer, HasOpenOrder
<1>5. ASSUME NEW d \in Disposals, NEW u \in Users, ApproveDisposal(d, u) PROVE Goal
  <2>1. \A e \in Disposals :
               /\ disposal'[e].asset = disposal[e].asset
               /\ disposal'[e].status = IF e = d THEN "APPROVED" ELSE disposal[e].status
    BY <1>1, <1>5 DEF ApproveDisposal, RowsTyped, DisposalRow
  <2> QED
    BY <1>4, <1>5, <2>1 DEF ApproveDisposal
<1>6. ASSUME NEW d \in Disposals, SubmitDisposal(d) \/ RejectDisposal(d) \/ CancelDisposal(d)
      PROVE Goal
  <2>1. PICK s \in {"PENDING_APPROVAL", "REJECTED", "CANCELLED"} :
          /\ disposal[d].status \in OpenDisposalStates
          /\ disposal' = [disposal EXCEPT ![d].status = s]
          /\ UNCHANGED asset
    BY <1>6 DEF SubmitDisposal, RejectDisposal, CancelDisposal
  <2>2. \A e \in Disposals :
               /\ disposal'[e].asset = disposal[e].asset
               /\ disposal'[e].status = IF e = d THEN s ELSE disposal[e].status
    BY <1>1, <2>1 DEF RowsTyped, DisposalRow
  <2> QED
    BY <1>4, <2>1, <2>2
<1>7. ASSUME NEW d \in Disposals, CompleteDisposal(d) PROVE Goal
  <2> DEFINE a == disposal[d].asset
  <2>1. a \in Assets
    BY <1>1, <1>7 DEF CompleteDisposal
  <2>2. \A b \in Assets : asset'[b].status = IF b = a THEN "DISPOSED" ELSE asset[b].status
    BY <1>1, <1>7, <2>1, SetAssetStatusEffect DEF CompleteDisposal
  <2>3. \A e \in Disposals :
               /\ disposal'[e].asset = disposal[e].asset
               /\ disposal'[e].status = IF e = d THEN "COMPLETED" ELSE disposal[e].status
    BY <1>1, <1>7 DEF CompleteDisposal, RowsTyped, DisposalRow
  <2>4. ~custody[a] /\ ~HasOpenTransfer(a) /\ ~HasOpenOrder(a)
    BY <1>7 DEF CompleteDisposal, NoOpenOperations
  <2>5. /\ disposal[d].status = "APPROVED"
        /\ asset[a].status = "ACTIVE"
    BY <1>7 DEF CompleteDisposal
  <2>6. OneOpenDisposal'
    BY <1>1, <2>3
  <2>7. \A b \in Assets : asset'[b].status = "DISPOSED" =>
          ~custody'[b] /\ ~HasOpenTransfer(b)' /\ ~HasOpenOrder(b)'
    BY <1>1, <1>2, <2>2, <2>4 DEF HasOpenTransfer, HasOpenOrder
  <2>8. \A b \in Assets : asset'[b].status = "DISPOSED" =>
          /\ ~HasOpenDisposal(b)'
          /\ \E e \in Disposals : disposal'[e].asset = b /\ disposal'[e].status = "COMPLETED"
    BY <1>1, <2>2, <2>3, <2>5
  <2>9. \A e \in Disposals :
          disposal'[e].status = "COMPLETED" => asset'[disposal'[e].asset].status = "DISPOSED"
    BY <1>1, <2>1, <2>2, <2>3
  <2>10. \A e, f \in Disposals :
           /\ disposal'[e].status = "COMPLETED" /\ disposal'[f].status = "COMPLETED"
           /\ disposal'[e].asset = disposal'[f].asset
           => e = f
    BY <1>1, <2>3, <2>5
  <2> QED
    BY <2>6, <2>7, <2>8, <2>9, <2>10
<1> QED
  BY <1>3, <1>5, <1>6, <1>7 DEF DisposalNext

LEMMA DisposalInductive == DisposalInv /\ [Next]_vars => DisposalInv'
<1> SUFFICES ASSUME DisposalInv, [Next]_vars PROVE DisposalInv'
  OBVIOUS
<1>1. Shape /\ Shape' /\ DisposedIsClosed
  BY ShapeInductive DEF DisposalInv
<1>2. CASE AssetNext \/ TransferNext \/ WorkOrderNext \/ DisposalNext
  BY <1>1, <1>2, AssetNextDisposal, TransferNextDisposal, WorkOrderNextDisposal,
     DisposalNextDisposal DEF DisposalInv
<1>3. CASE PlanNext \/ UNCHANGED vars
  <2>1. UNCHANGED <<asset, custody, transfer, order, disposal>>
    BY <1>1, <1>3, PlanNextShape DEF vars, rows
  <2>2. \A a \in Assets : asset[a].status = "DISPOSED" =>
          ~custody'[a] /\ ~HasOpenTransfer(a)' /\ ~HasOpenOrder(a)'
    BY <1>1, <2>1 DEF DisposedIsClosed, HasOpenTransfer, HasOpenOrder
  <2> QED
    BY <1>1, <2>1, <2>2, DisposalFrame DEF DisposalInv
<1>4. CASE AdminNext
  <2>1. /\ UNCHANGED <<custody, transfer, order, disposal>>
        /\ \A a \in Assets : asset[a].status = "DISPOSED" <=> asset'[a].status = "DISPOSED"
    BY <1>1, <1>4, AdminNextEffect DEF Shape
  <2>2. \A a \in Assets : asset[a].status = "DISPOSED" =>
          ~custody'[a] /\ ~HasOpenTransfer(a)' /\ ~HasOpenOrder(a)'
    BY <1>1, <2>1 DEF DisposedIsClosed, HasOpenTransfer, HasOpenOrder
  <2> QED
    BY <1>1, <2>1, <2>2, DisposalFrame DEF DisposalInv
<1> QED
  BY <1>2, <1>3, <1>4 DEF Next, ServiceNext

\* A disposal closes an asset for good: whatever workflows compete for an asset, once it
\* is DISPOSED nothing is open on it and exactly one disposal derecognized it
\* (disposals/services.py complete_disposal).
THEOREM DisposalCorrect == Spec => []DisposedIsClosed
<1>1. Init => DisposalInv
  BY InitShape DEF Init, DisposalInv, OneOpenDisposal, DisposedIsClosed, HasOpenTransfer,
         HasOpenOrder, HasOpenDisposal, OpenDisposalStates
<1>2. DisposalInv => DisposedIsClosed
  BY DEF DisposalInv
<1> QED
  BY <1>1, <1>2, DisposalInductive, PTL DEF Spec

-----------------------------------------------------------------------------
(* Capitalization *)

CapitalizationInv == Shape /\ CapitalizedOnce

\* a step that writes no acquisition and moves no asset over the line
LEMMA CapitalizationFrame ==
  ASSUME CapitalizationInv, UNCHANGED acquisition,
         \A a \in Assets : asset[a].status \in Movable \cup {"DISPOSED"}
                             <=> asset'[a].status \in Movable \cup {"DISPOSED"}
  PROVE  CapitalizedOnce'
  BY DEF CapitalizationInv, CapitalizedOnce

LEMMA AssetNextCapitalization == CapitalizationInv /\ AssetNext => CapitalizedOnce'
<1> SUFFICES ASSUME CapitalizationInv, AssetNext PROVE CapitalizedOnce'
  OBVIOUS
<1>1. RowsTyped /\ CapitalizedOnce
  BY DEF CapitalizationInv, Shape
<1> USE DEF Movable, Uncapitalized
<1>2. ASSUME NEW a \in Assets, NEW p \in Places, CreateAsset(a, p) PROVE CapitalizedOnce'
  BY <1>1, <1>2 DEF CreateAsset, RowsTyped, CapitalizedOnce
<1>3. ASSUME NEW a \in Assets, NEW p \in Places, UpdateAsset(a, p) \/ AssignAsset(a, p)
      PROVE CapitalizedOnce'
  BY <1>1, <1>3, PlacementEffect, CapitalizationFrame DEF UpdateAsset, AssignAsset
<1>4. ASSUME NEW a \in Assets, NEW s \in AcquisitionStatus, CreateAcquisition(a, s)
      PROVE CapitalizedOnce'
  BY <1>1, <1>4 DEF CreateAcquisition, RowsTyped, CapitalizedOnce
<1>5. ASSUME NEW a \in Assets, NEW s \in AcquisitionStatus, UpdateAcquisition(a, s)
      PROVE CapitalizedOnce'
  BY <1>1, <1>5 DEF UpdateAcquisition, RowsTyped, CapitalizedOnce
<1>6. ASSUME NEW a \in Assets, CapitalizeAcquisition(a) PROVE CapitalizedOnce'
  <2>1. \A b \in Assets : asset'[b].status = IF b = a THEN "ACTIVE" ELSE asset[b].status
    BY <1>1, <1>6, SetAssetStatusEffect DEF CapitalizeAcquisition
  <2>2. \A b \in Assets : acquisition'[b] = IF b = a THEN "CAPITALIZED" ELSE acquisition[b]
    BY <1>1, <1>6 DEF CapitalizeAcquisition, RowsTyped
  <2> QED
    BY <1>1, <2>1, <2>2 DEF CapitalizedOnce
<1>7. ASSUME NEW a \in Assets, ReturnAsset(a) PROVE CapitalizedOnce'
  BY <1>7, CapitalizationFrame DEF ReturnAsset
<1> QED
  BY <1>2, <1>3, <1>4, <1>5, <1>6, <1>7 DEF AssetNext

LEMMA WorkOrderNextCapitalization == CapitalizationInv /\ WorkOrderNext => CapitalizedOnce'
<1> SUFFICES ASSUME CapitalizationInv, WorkOrderNext PROVE CapitalizedOnce'
  OBVIOUS
<1>1. RowsTyped /\ NamesAssets
  BY DEF CapitalizationInv, Shape
<1>2. UNCHANGED acquisition
  BY DEF WorkOrderNext, CreateWorkOrder, AssignWorkOrder, StartWorkOrder, CompleteWorkOrder,
         CancelWorkOrder
<1> DEFINE Kept == \A a \in Assets : asset[a].status \in Movable \cup {"DISPOSED"}
                                    <=> asset'[a].status \in Movable \cup {"DISPOSED"}
<1>3. ASSUME NEW w \in WorkOrders, StartWorkOrder(w) PROVE Kept
  <2>1. order[w].asset \in Assets
    BY <1>1, <1>3 DEF StartWorkOrder, NamesAssets
  <2> QED
    BY <1>1, <1>3, <2>1, SetAssetStatusEffect DEF StartWorkOrder, Movable
<1>4. ASSUME NEW w \in WorkOrders, CompleteWorkOrder(w) \/ CancelWorkOrder(w) PROVE Kept
  <2>1. order[w].asset \in Assets /\ RestoreAssetIfNoActiveWork(w)
    BY <1>1, <1>4 DEF CompleteWorkOrder, CancelWorkOrder, NamesAssets, OpenOrderStates,
                      ActiveOrderStates
  <2> QED
    BY <1>1, <2>1, RestoreEffect DEF StatusesKept, Movable
<1>5. Kept
  BY <1>3, <1>4 DEF WorkOrderNext, CreateWorkOrder, AssignWorkOrder
<1> QED
  BY <1>2, <1>5, CapitalizationFrame

LEMMA DisposalNextCapitalization == CapitalizationInv /\ DisposalNext => CapitalizedOnce'
<1> SUFFICES ASSUME CapitalizationInv, DisposalNext PROVE CapitalizedOnce'
  OBVIOUS
<1>1. RowsTyped /\ NamesAssets
  BY DEF CapitalizationInv, Shape
<1>2. UNCHANGED acquisition
  BY DEF DisposalNext, CreateDisposal, ApproveDisposal, SubmitDisposal, RejectDisposal,
         CancelDisposal, CompleteDisposal
<1> DEFINE Kept == \A a \in Assets : asset[a].status \in Movable \cup {"DISPOSED"}
                                    <=> asset'[a].status \in Movable \cup {"DISPOSED"}
<1>3. ASSUME NEW d \in Disposals, CompleteDisposal(d) PROVE Kept
  <2>1. disposal[d].asset \in Assets
    BY <1>1, <1>3 DEF CompleteDisposal, NamesAssets
  <2>2. \A b \in Assets : asset'[b].status =
          IF b = disposal[d].asset THEN "DISPOSED" ELSE asset[b].status
    BY <1>1, <1>3, <2>1, SetAssetStatusEffect DEF CompleteDisposal
  <2> QED
    BY <1>3, <2>2 DEF CompleteDisposal, Movable
<1>4. Kept
  BY <1>3 DEF DisposalNext, CreateDisposal, ApproveDisposal, SubmitDisposal, RejectDisposal,
              CancelDisposal
<1> QED
  BY <1>2, <1>4, CapitalizationFrame

LEMMA CapitalizationInductive == CapitalizationInv /\ [Next]_vars => CapitalizationInv'
<1> SUFFICES ASSUME CapitalizationInv, [Next]_vars PROVE CapitalizationInv'
  OBVIOUS
<1>1. Shape /\ Shape'
  BY ShapeInductive DEF CapitalizationInv
<1>2. CASE AssetNext \/ WorkOrderNext \/ DisposalNext
  BY <1>1, <1>2, AssetNextCapitalization, WorkOrderNextCapitalization,
     DisposalNextCapitalization DEF CapitalizationInv
<1>3. CASE TransferNext
  <2>1. StatusesKept /\ UNCHANGED acquisition
    BY <1>1, <1>3, TransferNextShape
       DEF TransferNext, RequestTransfer, ApproveTransfer, RejectTransfer, CancelTransfer,
           TransitionTransfer, CompleteTransfer
  <2> QED
    BY <1>1, <2>1, CapitalizationFrame DEF StatusesKept, CapitalizationInv
<1>4. CASE PlanNext \/ UNCHANGED vars
  BY <1>1, <1>4, PlanNextShape, CapitalizationFrame DEF vars, rows, CapitalizationInv
<1>5. CASE AdminNext
  <2>1. /\ UNCHANGED acquisition
        /\ \A a \in Assets : asset[a].status \in Movable \cup {"DISPOSED"}
                               <=> asset'[a].status \in Movable \cup {"DISPOSED"}
    BY <1>1, <1>5, AdminNextEffect DEF Shape, Movable
  <2> QED
    BY <1>1, <2>1, CapitalizationFrame DEF CapitalizationInv
<1> QED
  BY <1>2, <1>3, <1>4, <1>5 DEF Next, ServiceNext

\* No workflow reaches an asset without a cost basis and no asset is capitalized twice
\* (assets/services/acquisition.py capitalize_acquisition).
THEOREM CapitalizationCorrect == Spec => []CapitalizedOnce
<1>1. Init => CapitalizationInv
  BY InitShape DEF Init, CapitalizationInv, CapitalizedOnce, Movable
<1>2. CapitalizationInv => CapitalizedOnce
  BY DEF CapitalizationInv
<1> QED
  BY <1>1, <1>2, CapitalizationInductive, PTL DEF Spec

-----------------------------------------------------------------------------
(* Separation of duties: inductive with the types *)

LEMMA DutiesInductive == RowsTyped /\ SeparationOfDuties /\ [Next]_vars => SeparationOfDuties'
<1> SUFFICES ASSUME RowsTyped, SeparationOfDuties, [Next]_vars PROVE SeparationOfDuties'
  OBVIOUS
<1> USE DEF RowsTyped, DisposalRow, SeparationOfDuties
<1>1. ASSUME UNCHANGED disposal PROVE SeparationOfDuties'
  BY <1>1
<1>2. ASSUME NEW d \in Disposals, NEW a \in Assets, NEW u \in Users, CreateDisposal(d, a, u)
      PROVE SeparationOfDuties'
  BY <1>2 DEF CreateDisposal
<1>3. ASSUME NEW d \in Disposals, SubmitDisposal(d) PROVE SeparationOfDuties'
  BY <1>3 DEF SubmitDisposal
<1>4. ASSUME NEW d \in Disposals, NEW u \in Users, ApproveDisposal(d, u)
      PROVE SeparationOfDuties'
  BY <1>4 DEF ApproveDisposal
<1>5. ASSUME NEW d \in Disposals, RejectDisposal(d) PROVE SeparationOfDuties'
  BY <1>5 DEF RejectDisposal
<1>6. ASSUME NEW d \in Disposals, CancelDisposal(d) PROVE SeparationOfDuties'
  BY <1>6 DEF CancelDisposal
<1>7. ASSUME NEW d \in Disposals, CompleteDisposal(d) PROVE SeparationOfDuties'
  BY <1>7 DEF CompleteDisposal
<1>8. ASSUME DisposalNext PROVE SeparationOfDuties'
  BY <1>2, <1>3, <1>4, <1>5, <1>6, <1>7, <1>8 DEF DisposalNext
<1>9. ASSUME AssetNext \/ TransferNext \/ WorkOrderNext \/ PlanNext \/ AdminNext
      PROVE UNCHANGED disposal
  <2>1. ASSUME AssetNext PROVE UNCHANGED disposal
    BY <2>1 DEF AssetNext, CreateAsset, UpdateAsset, AssignAsset, CreateAcquisition,
                UpdateAcquisition, CapitalizeAcquisition, ReturnAsset
  <2>2. ASSUME TransferNext PROVE UNCHANGED disposal
    BY <2>2 DEF TransferNext, RequestTransfer, ApproveTransfer, RejectTransfer, CancelTransfer,
                TransitionTransfer, CompleteTransfer
  <2>3. ASSUME WorkOrderNext PROVE UNCHANGED disposal
    BY <2>3 DEF WorkOrderNext, CreateWorkOrder, AssignWorkOrder, StartWorkOrder,
                CompleteWorkOrder, CancelWorkOrder
  <2>4. ASSUME PlanNext PROVE UNCHANGED disposal
    BY <2>4 DEF PlanNext, CreateMaintenancePlan, ReadMaintenancePlan, UpdateMaintenancePlan
  <2>5. ASSUME AdminNext PROVE UNCHANGED disposal
    BY <2>5 DEF AdminNext, AdminCreateAsset, CorrectAsset
  <2> QED
    BY <1>9, <2>1, <2>2, <2>3, <2>4, <2>5
<1> QED
  BY <1>1, <1>8, <1>9 DEF Next, ServiceNext, vars, rows

\* The requester of a disposal never approved it (disposals/services.py approve_disposal).
THEOREM DutiesSeparated == Spec => []SeparationOfDuties
<1>1. Init => SeparationOfDuties
  BY DEF Init, SeparationOfDuties
<1> QED
  BY <1>1, DutiesInductive, InitTypeOK, NextRowsTyped, PTL DEF Spec
-----------------------------------------------------------------------------
(* What a step may never do to a placement or to a row that is closed *)

\* A step that is not of transfers moves no ACTIVE asset and completes no transfer.
PlacementStays ==
  /\ UNCHANGED transfer
  /\ \A a \in Assets : asset[a].status = "ACTIVE" => asset'[a].place = asset[a].place

LEMMA SetAssetStatusKeepsPlaces ==
  ASSUME RowsTyped, NEW a, NEW s, SetAssetStatus(a, s)
  PROVE  \A b \in Assets : asset'[b].place = asset[b].place
  BY DEF RowsTyped, AssetRow, SetAssetStatus

LEMMA AssetNextPlacement == RowsTyped /\ AssetNext => PlacementStays
<1> SUFFICES ASSUME RowsTyped, AssetNext PROVE PlacementStays
  OBVIOUS
<1> USE DEF PlacementStays
<1>1. ASSUME NEW a \in Assets, NEW p \in Places, CreateAsset(a, p) PROVE PlacementStays
  BY <1>1 DEF CreateAsset, RowsTyped
<1>2. ASSUME NEW a \in Assets, NEW p \in Places, UpdateAsset(a, p) \/ AssignAsset(a, p)
      PROVE PlacementStays
  <2>1. asset' = [asset EXCEPT ![a].place = p] /\ UNCHANGED transfer
    BY <1>2 DEF UpdateAsset, AssignAsset
  <2>2. asset[a].status = "ACTIVE" => p = asset[a].place
    BY <1>2 DEF UpdateAsset, AssignAsset
  <2>3. \A b \in Assets : asset'[b].place = IF b = a THEN p ELSE asset[b].place
    BY <2>1 DEF RowsTyped, AssetRow
  <2> QED
    BY <2>1, <2>2, <2>3
<1>3. ASSUME NEW a \in Assets, CapitalizeAcquisition(a) PROVE PlacementStays
  BY <1>3, SetAssetStatusKeepsPlaces DEF CapitalizeAcquisition
<1> QED
  BY <1>1, <1>2, <1>3 DEF AssetNext, CreateAcquisition, UpdateAcquisition, ReturnAsset

LEMMA WorkOrderNextPlacement == RowsTyped /\ WorkOrderNext => PlacementStays
<1> SUFFICES ASSUME RowsTyped, NEW w \in WorkOrders, WorkOrderNext PROVE PlacementStays
  BY DEF WorkOrderNext
<1>1. UNCHANGED transfer
  BY DEF WorkOrderNext, CreateWorkOrder, AssignWorkOrder, StartWorkOrder, CompleteWorkOrder,
         CancelWorkOrder
<1>2. UNCHANGED asset \/ \E a, s : SetAssetStatus(a, s)
  BY DEF WorkOrderNext, CreateWorkOrder, AssignWorkOrder, StartWorkOrder, CompleteWorkOrder,
         CancelWorkOrder, RestoreAssetIfNoActiveWork
<1> QED
  BY <1>1, <1>2, SetAssetStatusKeepsPlaces DEF PlacementStays

LEMMA DisposalNextPlacement == RowsTyped /\ DisposalNext => PlacementStays
<1> SUFFICES ASSUME RowsTyped, DisposalNext PROVE PlacementStays
  OBVIOUS
<1>1. UNCHANGED transfer
  BY DEF DisposalNext, CreateDisposal, ApproveDisposal, SubmitDisposal, RejectDisposal,
         CancelDisposal, CompleteDisposal
<1>2. UNCHANGED asset \/ \E a, s : SetAssetStatus(a, s)
  BY DEF DisposalNext, CreateDisposal, ApproveDisposal, SubmitDisposal, RejectDisposal,
         CancelDisposal, CompleteDisposal
<1> QED
  BY <1>1, <1>2, SetAssetStatusKeepsPlaces DEF PlacementStays

LEMMA TransferNextPlacement == Shape /\ TransferNext => PlacementMoves
<1> SUFFICES ASSUME Shape, TransferNext PROVE PlacementMoves
  OBVIOUS
<1>1. RowsTyped /\ NamesAssets
  BY DEF Shape
<1> USE DEF PlacementMoves, CompletesTransfer
<1>2. ASSUME NEW t \in Transfers, NEW a \in Assets, NEW p \in Places, RequestTransfer(t, a, p)
      PROVE PlacementMoves
  BY <1>1, <1>2 DEF RequestTransfer, RowsTyped
<1>3. ASSUME NEW t \in Transfers, NEW s \in {"APPROVED", "REJECTED", "CANCELLED"},
             TransitionTransfer(t, s)
      PROVE PlacementMoves
  BY <1>1, <1>3 DEF TransitionTransfer, RowsTyped, TransferRow
<1>4. ASSUME NEW t \in Transfers, CompleteTransfer(t) PROVE PlacementMoves
  <2>1. transfer[t].asset \in Assets
    BY <1>1, <1>4 DEF CompleteTransfer, NamesAssets
  <2>2. \A b \in Assets : asset'[b].place =
          IF b = transfer[t].asset THEN transfer[t].to ELSE asset[b].place
    BY <1>1, <1>4, <2>1 DEF CompleteTransfer, RowsTyped, AssetRow
  <2>3. \A u \in Transfers : transfer'[u].status =
          IF u = t THEN "COMPLETED" ELSE transfer[u].status
    BY <1>1, <1>4 DEF CompleteTransfer, RowsTyped, TransferRow
  <2>4. transfer[t].status = "APPROVED" /\ asset[transfer[t].asset].place = transfer[t].from
    BY <1>4 DEF CompleteTransfer
  <2> QED
    BY <2>1, <2>2, <2>3, <2>4
<1> QED
  BY <1>2, <1>3, <1>4 DEF TransferNext, ApproveTransfer, RejectTransfer, CancelTransfer

\* A transfer completes only if the asset is still where the transfer was requested from,
\* and nothing else moves an ACTIVE asset but a correction that leaves its event
\* (transfers/services.py complete_transfer, assets.py update_asset, custody.py
\* assign_asset, admin.py save_model).
THEOREM PlacementCorrect == Spec => ActivePlacementMovesByTransfer
<1>1. Shape /\ CorrectionsTyped /\ [Next]_vars => PlacementMoves
  <2> SUFFICES ASSUME Shape, CorrectionsTyped, [Next]_vars PROVE PlacementMoves
    OBVIOUS
  <2>1. CASE TransferNext
    BY <2>1, TransferNextPlacement
  <2>2. CASE AssetNext \/ WorkOrderNext \/ DisposalNext \/ PlanNext \/ UNCHANGED vars
    <3>1. PlacementStays
      BY <2>2, AssetNextPlacement, WorkOrderNextPlacement, DisposalNextPlacement, PlanNextShape
         DEF Shape, PlacementStays, vars, rows
    <3> QED
      BY <3>1 DEF PlacementStays, PlacementMoves, CompletesTransfer
  <2>3. CASE AdminNext
    BY <2>3, AdminNextEffect DEF Shape, PlacementMoves, CompletesTransfer
  <2> QED
    BY <2>1, <2>2, <2>3 DEF Next, ServiceNext
<1>2. Shape /\ [Next]_vars => Shape'
  BY ShapeInductive
<1> QED
  BY <1>1, <1>2, InitShape, InitCorrections, NextCorrections, PTL
     DEF Spec, ActivePlacementMovesByTransfer

\* What a workflow may do to the asset and to its custody: a disposed asset is left alone.
DisposedStays ==
  \A a \in Assets :
    asset[a].status = "DISPOSED" => asset'[a].status = "DISPOSED" /\ custody'[a] = custody[a]

LEMMA AssetNextHistory == Shape /\ AssetNext => HistoryStays
<1> SUFFICES ASSUME Shape, AssetNext PROVE HistoryStays
  OBVIOUS
<1>1. RowsTyped /\ UNCHANGED <<transfer, order, disposal>>
  BY DEF Shape, AssetNext, CreateAsset, UpdateAsset, AssignAsset, CreateAcquisition,
         UpdateAcquisition, CapitalizeAcquisition, ReturnAsset
<1>2. \A a \in Assets : acquisition[a] = "CAPITALIZED" => acquisition'[a] = "CAPITALIZED"
  BY <1>1 DEF RowsTyped, AssetNext, CreateAsset, UpdateAsset, AssignAsset, CreateAcquisition,
              UpdateAcquisition, CapitalizeAcquisition, ReturnAsset
<1> USE DEF DisposedStays, Movable, Uncapitalized
<1>3. ASSUME NEW a \in Assets, NEW p \in Places, CreateAsset(a, p) PROVE DisposedStays
  BY <1>1, <1>3 DEF CreateAsset, RowsTyped
<1>4. ASSUME NEW a \in Assets, NEW p \in Places, UpdateAsset(a, p) PROVE DisposedStays
  BY <1>1, <1>4, PlacementEffect DEF UpdateAsset
<1>5. ASSUME NEW a \in Assets, NEW p \in Places, AssignAsset(a, p) PROVE DisposedStays
  <2>1. \A b \in Assets : asset'[b].status = asset[b].status
    BY <1>1, <1>5, PlacementEffect DEF AssignAsset
  <2> QED
    BY <1>1, <1>5, <2>1 DEF AssignAsset, RowsTyped
<1>6. ASSUME NEW a \in Assets, CapitalizeAcquisition(a) PROVE DisposedStays
  <2>1. \A b \in Assets : asset'[b].status = IF b = a THEN "ACTIVE" ELSE asset[b].status
    BY <1>1, <1>6, SetAssetStatusEffect DEF CapitalizeAcquisition
  <2> QED
    BY <1>6, <2>1 DEF CapitalizeAcquisition
<1>7. ASSUME NEW a \in Assets, ReturnAsset(a) PROVE DisposedStays
  BY <1>1, <1>7 DEF ReturnAsset, RowsTyped
<1>8. DisposedStays
  BY <1>3, <1>4, <1>5, <1>6, <1>7 DEF AssetNext, CreateAcquisition, UpdateAcquisition
<1> QED
  BY <1>1, <1>2, <1>8 DEF HistoryStays, DisposedStays

LEMMA TransferNextHistory == Shape /\ TransferNext => HistoryStays
<1> SUFFICES ASSUME Shape, TransferNext PROVE HistoryStays
  OBVIOUS
<1>1. RowsTyped /\ StatusesKept /\ UNCHANGED <<acquisition, custody, order, disposal>>
  BY TransferNextShape
     DEF Shape, TransferNext, RequestTransfer, ApproveTransfer, RejectTransfer, CancelTransfer,
         TransitionTransfer, CompleteTransfer
<1> DEFINE Kept == \A t \in Transfers :
             transfer[t].status \in {"COMPLETED", "REJECTED", "CANCELLED"} => transfer'[t] = transfer[t]
<1>2. ASSUME NEW t \in Transfers, transfer[t].status \in {"ABSENT", "REQUESTED", "APPROVED"},
             \A u \in Transfers : u # t => transfer'[u] = transfer[u]
      PROVE  Kept
  BY <1>2
<1>3. ASSUME NEW t \in Transfers, NEW a \in Assets, NEW p \in Places, RequestTransfer(t, a, p)
      PROVE Kept
  BY <1>1, <1>2, <1>3 DEF RequestTransfer, RowsTyped
<1>4. ASSUME NEW t \in Transfers, NEW s, TransitionTransfer(t, s) PROVE Kept
  BY <1>1, <1>2, <1>4 DEF TransitionTransfer, RowsTyped
<1>5. ASSUME NEW t \in Transfers, CompleteTransfer(t) PROVE Kept
  BY <1>1, <1>2, <1>5 DEF CompleteTransfer, RowsTyped
<1>6. Kept
  BY <1>3, <1>4, <1>5 DEF TransferNext, ApproveTransfer, RejectTransfer, CancelTransfer
<1> QED
  BY <1>1, <1>6 DEF HistoryStays, StatusesKept

LEMMA WorkOrderNextHistory == Shape /\ WorkOrderNext => HistoryStays
<1> SUFFICES ASSUME Shape, NEW w \in WorkOrders,
                    \/ \E a \in Assets : CreateWorkOrder(w, a)
                    \/ AssignWorkOrder(w) \/ StartWorkOrder(w)
                    \/ CompleteWorkOrder(w) \/ CancelWorkOrder(w)
             PROVE HistoryStays
  BY DEF WorkOrderNext
<1>1. RowsTyped /\ NamesAssets /\ UNCHANGED <<acquisition, custody, transfer, disposal>>
  BY DEF Shape, CreateWorkOrder, AssignWorkOrder, StartWorkOrder, CompleteWorkOrder,
         CancelWorkOrder
<1>2. order[w].status \notin {"COMPLETED", "CANCELLED"}
  BY DEF CreateWorkOrder, AssignWorkOrder, StartWorkOrder, CompleteWorkOrder, CancelWorkOrder,
         OpenOrderStates, ActiveOrderStates
<1>3. \A v \in WorkOrders : v # w => order'[v] = order[v]
  BY <1>1 DEF RowsTyped, CreateWorkOrder, AssignWorkOrder, StartWorkOrder, CompleteWorkOrder,
              CancelWorkOrder
<1> DEFINE Kept == \A a \in Assets : asset[a].status = "DISPOSED" => asset'[a].status = "DISPOSED"
<1>4. ASSUME StartWorkOrder(w) PROVE Kept
  <2>1. order[w].asset \in Assets
    BY <1>1, <1>4 DEF StartWorkOrder, NamesAssets
  <2> QED
    BY <1>1, <1>4, <2>1, SetAssetStatusEffect DEF StartWorkOrder
<1>5. ASSUME CompleteWorkOrder(w) \/ CancelWorkOrder(w) PROVE Kept
  <2>1. order[w].asset \in Assets /\ RestoreAssetIfNoActiveWork(w)
    BY <1>1, <1>5 DEF CompleteWorkOrder, CancelWorkOrder, NamesAssets, OpenOrderStates,
                      ActiveOrderStates
  <2> QED
    BY <1>1, <2>1, RestoreEffect DEF StatusesKept
<1>6. Kept
  BY <1>4, <1>5 DEF CreateWorkOrder, AssignWorkOrder
<1> QED
  BY <1>1, <1>2, <1>3, <1>6 DEF HistoryStays

LEMMA DisposalNextHistory == Shape /\ DisposalNext => HistoryStays
<1> SUFFICES ASSUME Shape, NEW d \in Disposals,
                    \/ \E a \in Assets, u \in Users : CreateDisposal(d, a, u)
                    \/ \E u \in Users : ApproveDisposal(d, u)
                    \/ SubmitDisposal(d) \/ RejectDisposal(d)
                    \/ CancelDisposal(d) \/ CompleteDisposal(d)
             PROVE HistoryStays
  BY DEF DisposalNext
<1>1. RowsTyped /\ NamesAssets /\ UNCHANGED <<acquisition, custody, transfer, order>>
  BY DEF Shape, CreateDisposal, ApproveDisposal, SubmitDisposal, RejectDisposal,
         CancelDisposal, CompleteDisposal
<1>2. disposal[d].status \notin {"COMPLETED", "REJECTED", "CANCELLED"}
  BY DEF CreateDisposal, ApproveDisposal, SubmitDisposal, RejectDisposal,
         CancelDisposal, CompleteDisposal, OpenDisposalStates
<1>3. \A e \in Disposals : e # d => disposal'[e] = disposal[e]
  BY <1>1 DEF RowsTyped, CreateDisposal, ApproveDisposal, SubmitDisposal, RejectDisposal,
              CancelDisposal, CompleteDisposal
<1> DEFINE Kept == \A a \in Assets : asset[a].status = "DISPOSED" => asset'[a].status = "DISPOSED"
<1>4. ASSUME CompleteDisposal(d) PROVE Kept
  <2>1. disposal[d].asset \in Assets
    BY <1>1, <1>4 DEF CompleteDisposal, NamesAssets
  <2> QED
    BY <1>1, <1>4, <2>1, SetAssetStatusEffect DEF CompleteDisposal
<1>5. Kept
  BY <1>4 DEF CreateDisposal, ApproveDisposal, SubmitDisposal, RejectDisposal, CancelDisposal
<1> QED
  BY <1>1, <1>2, <1>3, <1>5 DEF HistoryStays

\* Disposed assets, capitalized acquisitions and the closed rows of every workflow are
\* history, whichever services run (transfers, maintenance and disposals services.py).
THEOREM HistoryCorrect == Spec => HistoryIsFinal
<1>1. Shape /\ [Next]_vars => HistoryStays
  <2> SUFFICES ASSUME Shape, [Next]_vars PROVE HistoryStays
    OBVIOUS
  <2>1. CASE PlanNext \/ UNCHANGED vars
    BY <2>1, PlanNextShape DEF vars, rows, HistoryStays
  <2>2. CASE AssetNext \/ TransferNext \/ WorkOrderNext \/ DisposalNext
    BY <2>2, AssetNextHistory, TransferNextHistory, WorkOrderNextHistory, DisposalNextHistory
  <2>3. CASE AdminNext
    BY <2>3, AdminNextEffect DEF Shape, HistoryStays
  <2> QED
    BY <2>1, <2>2, <2>3 DEF Next, ServiceNext
<1>2. Shape /\ [Next]_vars => Shape'
  BY ShapeInductive
<1> QED
  BY <1>1, <1>2, InitShape, PTL DEF Spec, HistoryIsFinal
=============================================================================
