------------------------- MODULE AssetTransactions -------------------------
(***************************************************************************)
(* The same workflows as AssetLifecycle, run by concurrent requests.       *)
(*                                                                         *)
(* Under PostgreSQL's READ COMMITTED isolation a service is not one step:  *)
(* it locks the workflow row (SELECT ... FOR UPDATE), then the asset row,  *)
(* then perhaps a last row, reads other tables that it does not lock, and  *)
(* commits.  Between these steps other requests lock, read and commit.  A  *)
(* transaction keeps here what it read (sawRow, sawAsset, blocked, total)  *)
(* and its commit writes from that copy, as the Django instances do.  What *)
(* the commit does must still be a step of AssetLifecycle: Lifecycle!Spec. *)
(*                                                                         *)
(* A call whose workflow row is already in the wrong status is rejected    *)
(* whatever the asset says, changes nothing, and is not started here.      *)
(* These are the services, which all lock what they write.  The asset page *)
(* of the admin site (assets/admin.py:147) does not: it saves a whole row  *)
(* from a copy it read without a lock, and is no request here.             *)
(***************************************************************************)
EXTENDS Naturals, FiniteSets

CONSTANTS Assets, Places, Users, Transfers, WorkOrders, Disposals, AssetLimit, None,
          Requests,     \* request handlers that run transactions
          MaxCosts      \* bound on the costs recorded against one work order

ASSUME NoneIsNothing == None \notin Assets \cup Places \cup Users \cup Requests
ASSUME LimitIsNat == AssetLimit \in Nat
ASSUME CostsAreBounded == MaxCosts \in Nat

VARIABLES asset, acquisition, custody, transfer, order, disposal,   \* committed rows
          costs,        \* [WorkOrders -> 0..MaxCosts], rows of MaintenanceCost, one unit each
          recorded,     \* [WorkOrders -> 0..MaxCosts or None], MaintenanceRecord.total_cost
          lock,         \* [Rows -> Requests or None], who holds FOR UPDATE on the row
          tx            \* [Requests -> transaction]

rows == <<asset, acquisition, custody, transfer, order, disposal, costs, recorded>>
vars == <<rows, lock, tx>>

Lifecycle == INSTANCE AssetLifecycle WITH
  Plans <- {}, plan <- [p \in {} |-> p],
  MaxCorrections <- 0, corrections <- [a \in Assets |-> 0]

-----------------------------------------------------------------------------
(* The services and the locks they take *)

TransferCalls == {"approve_transfer", "reject_transfer", "cancel_transfer", "complete_transfer"}
OrderCalls == {"assign_work_order", "start_work_order", "complete_work_order",
               "cancel_work_order", "create_maintenance_cost"}
DisposalCalls == {"submit_disposal", "approve_disposal", "reject_disposal", "cancel_disposal",
                  "complete_disposal"}
AssetCalls == {"assign_asset", "return_asset", "request_transfer", "create_work_order",
               "create_disposal"}
AcquisitionCalls == {"update_acquisition", "capitalize_acquisition"}
Calls == TransferCalls \cup OrderCalls \cup DisposalCalls \cup AssetCalls
           \cup AcquisitionCalls

\* the calls that lock the workflow row and never the asset
RowOnly == {"approve_transfer", "reject_transfer", "cancel_transfer",
            "create_maintenance_cost", "reject_disposal", "cancel_disposal"}

\* the calls that lock one more row after the asset's
TakesLast == {"return_asset", "create_work_order"}

\* a plausible bug: a cost may be recorded against an order already closed
FromAnyOrder(call) ==
  CASE call = "create_maintenance_cost" -> {"OPEN", "ASSIGNED", "IN_PROGRESS", "COMPLETED"}
    [] call = "start_work_order"        -> {"OPEN", "ASSIGNED"}
    [] call = "complete_work_order"     -> {"IN_PROGRESS"}
    [] call = "capitalize_acquisition"  -> {"DRAFT"}
    [] OTHER                            -> {}

\* the statuses of the workflow row a call accepts
From(call) ==
  CASE call \in {"approve_transfer", "reject_transfer", "cancel_transfer"} -> {"REQUESTED"}
    [] call = "complete_transfer"       -> {"APPROVED"}
    [] call = "assign_work_order"       -> {"OPEN"}
    [] call = "start_work_order"        -> {"OPEN", "ASSIGNED"}
    [] call = "complete_work_order"     -> {"IN_PROGRESS"}
    [] call = "cancel_work_order"       -> {"OPEN", "ASSIGNED", "IN_PROGRESS"}
    [] call = "create_maintenance_cost" -> {"OPEN", "ASSIGNED", "IN_PROGRESS"}
    [] call = "submit_disposal"         -> {"DRAFT"}
    [] call \in {"approve_disposal", "reject_disposal"} -> {"PENDING_APPROVAL"}
    [] call = "cancel_disposal"         -> {"DRAFT", "PENDING_APPROVAL", "APPROVED"}
    [] call = "complete_disposal"       -> {"APPROVED"}
    [] call = "update_acquisition"      -> {"UNDATED", "DRAFT"}
    [] call = "capitalize_acquisition"  -> {"DRAFT"}

\* the status a call gives the workflow row
To(call) ==
  CASE call = "approve_transfer"     -> "APPROVED"
    [] call = "reject_transfer"      -> "REJECTED"
    [] call = "cancel_transfer"      -> "CANCELLED"
    [] call = "complete_transfer"    -> "COMPLETED"
    [] call = "assign_work_order"    -> "ASSIGNED"
    [] call = "start_work_order"     -> "IN_PROGRESS"
    [] call = "complete_work_order"  -> "COMPLETED"
    [] call = "cancel_work_order"    -> "CANCELLED"
    [] call = "submit_disposal"      -> "PENDING_APPROVAL"
    [] call = "approve_disposal"     -> "APPROVED"
    [] call = "reject_disposal"      -> "REJECTED"
    [] call = "cancel_disposal"      -> "CANCELLED"
    [] call = "complete_disposal"    -> "COMPLETED"

\* the asset statuses _locked_asset accepts; update_acquisition asks for none
AssetGuard(call) ==
  CASE call = "capitalize_acquisition" -> Lifecycle!Uncapitalized
    [] call = "update_acquisition" -> Lifecycle!AssetStatus
    [] call \in DisposalCalls \cup {"create_disposal"} -> {"ACTIVE"}
    [] OTHER -> Lifecycle!Movable

AcquisitionRow(a) == <<"acquisition", a>>
AssignmentRow(a) == <<"assignment", a>>     \* the open assignment of the asset
SequenceRow == <<"work order sequence">>    \* the organization's WorkOrderSequence
LastRows == {AssignmentRow(a) : a \in Assets} \cup {SequenceRow}
Rows == Assets \cup Transfers \cup WorkOrders \cup Disposals
          \cup {AcquisitionRow(a) : a \in Assets} \cup LastRows

\* a row belongs to one table
ASSUME TablesAreDisjoint ==
  /\ Assets \cap (Transfers \cup WorkOrders \cup Disposals) = {}
  /\ Transfers \cap (WorkOrders \cup Disposals) = {} /\ WorkOrders \cap Disposals = {}
  /\ \A a \in Assets :
       AcquisitionRow(a) \notin Assets \cup Transfers \cup WorkOrders \cup Disposals \cup LastRows
  /\ LastRows \cap (Assets \cup Transfers \cup WorkOrders \cup Disposals) = {}

RowsOf(call) ==
  CASE call \in TransferCalls -> Transfers
    [] call \in OrderCalls    -> WorkOrders
    [] call \in DisposalCalls -> Disposals
    [] OTHER                  -> {}

Row(r) ==
  IF r \in Transfers THEN transfer[r] ELSE IF r \in WorkOrders THEN order[r] ELSE disposal[r]

\* a plausible bug: one service locks the asset before the row every other service locks first
AssetFirst(call, r, a) == IF call = "start_work_order" THEN a ELSE r

\* every service that locks both takes the workflow row, then the asset
FirstLock(call, r, a) == r
SecondLock(call, r, a) == IF FirstLock(call, r, a) = a THEN r ELSE a

\* return_asset then locks the open assignment, create_work_order the organization's sequence
LastLock(call, a) == IF call = "return_asset" THEN AssignmentRow(a) ELSE SequenceRow

-----------------------------------------------------------------------------
(* Transactions *)

Idle == [call |-> "none", row |-> None, on |-> None, step |-> "idle",
         sawRow |-> None, sawAsset |-> None, blocked |-> FALSE, total |-> 0]

Init ==
  /\ Lifecycle!Init
  /\ costs = [w \in WorkOrders |-> 0]
  /\ recorded = [w \in WorkOrders |-> None]
  /\ lock = [r \in Rows |-> None]
  /\ tx = [q \in Requests |-> Idle]

Release(q) == lock' = [r \in Rows |-> IF lock[r] = q THEN None ELSE lock[r]]
End(q) == Release(q) /\ tx' = [tx EXCEPT ![q] = Idle]

\* SELECT ... FOR UPDATE of a workflow row, found in a status the call accepts
LockRow(q, call, r) ==
  LET a == Row(r).asset
      first == FirstLock(call, r, a)
  IN /\ tx[q].step = "idle"
     /\ r \in RowsOf(call) /\ Row(r).status \in From(call)
     /\ lock[first] = None
     /\ lock' = [lock EXCEPT ![first] = q]
     /\ tx' = [tx EXCEPT ![q] = [Idle EXCEPT !.call = call, !.row = r, !.on = a,
                 !.sawRow = Row(r), !.step = IF call \in RowOnly THEN "commit" ELSE "asset"]]
     /\ UNCHANGED rows

\* the acquisition row, then the asset
LockAcquisition(q, call, a) ==
  /\ tx[q].step = "idle"
  /\ call \in AcquisitionCalls /\ acquisition[a] \in From(call)
  /\ lock[AcquisitionRow(a)] = None
  /\ lock' = [lock EXCEPT ![AcquisitionRow(a)] = q]
  /\ tx' = [tx EXCEPT ![q] = [Idle EXCEPT !.call = call,
              !.row = AcquisitionRow(a), !.on = a, !.step = "asset"]]
  /\ UNCHANGED rows

\* the calls that lock the asset at once, some of them another row after it
LockAssetFirst(q, call, a) ==
  /\ tx[q].step = "idle"
  /\ call \in AssetCalls /\ asset[a].status \in AssetGuard(call)
  /\ lock[a] = None
  /\ lock' = [lock EXCEPT ![a] = q]
  /\ tx' = [tx EXCEPT ![q] = [Idle EXCEPT !.call = call, !.on = a, !.sawAsset = asset[a],
                !.step = IF call \in TakesLast THEN "last" ELSE "commit"]]
  /\ UNCHANGED rows

\* waits for the row after the asset's; without an open assignment return_asset is rejected
LockLast(q) ==
  LET t == tx[q]
      last == LastLock(t.call, t.on)
  IN /\ t.step = "last"
     /\ lock[last] = None
     /\ t.call = "return_asset" => custody[t.on]
     /\ lock' = [lock EXCEPT ![last] = q]
     /\ tx' = [tx EXCEPT ![q].step = "commit"]
     /\ UNCHANGED rows

\* what follows the asset's lock: reads of other tables, or nothing
Reads(call) ==
  CASE call = "complete_disposal" -> "read_custody"
    [] call \in {"complete_work_order", "cancel_work_order"} -> "read_orders"
    [] OTHER -> "commit"

\* a plausible bug: the asset is read with get() and no lock
ReadAssetUnlocked(q) ==
  LET t == tx[q]
      second == SecondLock(t.call, t.row, t.on)
  IN /\ t.step = "asset"
     /\ asset[t.on].status \in AssetGuard(t.call)
     /\ tx' = [tx EXCEPT ![q].sawAsset = asset[t.on], ![q].step = Reads(t.call)]
     /\ UNCHANGED <<rows, lock>>

\* waits for the second lock, then reads the asset afresh
LockAsset(q) ==
  LET t == tx[q]
      second == SecondLock(t.call, t.row, t.on)
  IN /\ t.step = "asset"
     /\ lock[second] = None
     /\ asset[t.on].status \in AssetGuard(t.call)
     /\ lock' = [lock EXCEPT ![second] = q]
     /\ tx' = [tx EXCEPT ![q].sawAsset = asset[t.on], ![q].step = Reads(t.call)]
     /\ UNCHANGED rows

\* _locked_asset raises: the transaction rolls back and its locks go
RejectAsset(q) ==
  /\ tx[q].step = "asset"
  /\ lock[SecondLock(tx[q].call, tx[q].row, tx[q].on)] = None
  /\ asset[tx[q].on].status \notin AssetGuard(tx[q].call)
  /\ End(q)
  /\ UNCHANGED rows

\* _assert_no_open_operations: three statements, each with a snapshot of its own
ReadCustody(q) ==
  /\ tx[q].step = "read_custody"
  /\ tx' = [tx EXCEPT ![q].blocked = custody[tx[q].on], ![q].step = "read_transfers"]
  /\ UNCHANGED <<rows, lock>>

ReadTransfers(q) ==
  /\ tx[q].step = "read_transfers"
  /\ tx' = [tx EXCEPT ![q].blocked = @ \/ Lifecycle!HasOpenTransfer(tx[q].on),
                      ![q].step = "read_orders"]
  /\ UNCHANGED <<rows, lock>>

\* the disposal's third check; for a work order, the other orders active on the asset
\* and the sum of its own costs
ReadOrders(q) ==
  LET t == tx[q]
      otherActive == \E v \in WorkOrders \ {t.row} :
                       order[v].asset = t.on /\ order[v].status \in Lifecycle!ActiveOrderStates
  IN /\ t.step = "read_orders"
     /\ tx' = [tx EXCEPT
          ![q].blocked = IF t.call = "complete_disposal"
                           THEN @ \/ Lifecycle!HasOpenOrder(t.on) ELSE otherActive,
          ![q].total = IF t.call = "complete_work_order" THEN costs[t.row] ELSE 0,
          ![q].step = "commit"]
     /\ UNCHANGED <<rows, lock>>

-----------------------------------------------------------------------------
(* Commits.  The written row is the copy that was read, with the fields the   *)
(* service assigns.                                                           *)

Commits(q, calls) == tx[q].step = "commit" /\ tx[q].call \in calls

Advanced(q) == [tx[q].sawRow EXCEPT !.status = To(tx[q].call)]

WriteAssetStatus(q, s) == asset' = [asset EXCEPT ![tx[q].on] = [tx[q].sawAsset EXCEPT !.status = s]]

CommitCapitalization(q) ==
  /\ Commits(q, {"capitalize_acquisition"})
  /\ WriteAssetStatus(q, "ACTIVE")
  /\ acquisition' = [acquisition EXCEPT ![tx[q].on] = "CAPITALIZED"]
  /\ UNCHANGED <<custody, transfer, order, disposal, costs, recorded>>

\* full_clean and save: nothing of the asset is written
CommitUpdateAcquisition(q, s) ==
  /\ Commits(q, {"update_acquisition"})
  /\ acquisition' = [acquisition EXCEPT ![tx[q].on] = s]
  /\ UNCHANGED <<asset, custody, transfer, order, disposal, costs, recorded>>

CommitAssign(q, p) ==
  LET t == tx[q] IN
  /\ Commits(q, {"assign_asset"})
  /\ ~custody[t.on]
  /\ t.sawAsset.status = "ACTIVE" => p = t.sawAsset.place
  /\ custody' = [custody EXCEPT ![t.on] = TRUE]
  /\ asset' = [asset EXCEPT ![t.on] = [t.sawAsset EXCEPT !.place = p]]
  /\ UNCHANGED <<acquisition, transfer, order, disposal, costs, recorded>>

CommitReturn(q) ==
  /\ Commits(q, {"return_asset"})
  /\ custody' = [custody EXCEPT ![tx[q].on] = FALSE]
  /\ UNCHANGED <<asset, acquisition, transfer, order, disposal, costs, recorded>>

CommitRequestTransfer(q, r, to) ==
  LET t == tx[q] IN
  /\ Commits(q, {"request_transfer"})
  /\ transfer[r].status = "ABSENT"
  /\ to # t.sawAsset.place
  /\ ~Lifecycle!HasOpenTransfer(t.on)
  /\ transfer' = [transfer EXCEPT ![r] = [status |-> "REQUESTED", asset |-> t.on,
                                          from |-> t.sawAsset.place, to |-> to]]
  /\ UNCHANGED <<asset, acquisition, custody, order, disposal, costs, recorded>>

CommitTransfer(q) ==
  LET t == tx[q] IN
  /\ Commits(q, TransferCalls)
  /\ transfer' = [transfer EXCEPT ![t.row] = Advanced(q)]
  /\ IF t.call = "complete_transfer"
       THEN /\ t.sawAsset.place = t.sawRow.from
            /\ asset' = [asset EXCEPT ![t.on] = [t.sawAsset EXCEPT !.place = t.sawRow.to]]
       ELSE UNCHANGED asset
  /\ UNCHANGED <<acquisition, custody, order, disposal, costs, recorded>>

CommitCreateWorkOrder(q, w) ==
  /\ Commits(q, {"create_work_order"})
  /\ order[w].status = "ABSENT"
  /\ order' = [order EXCEPT ![w] = [status |-> "OPEN", asset |-> tx[q].on]]
  /\ UNCHANGED <<asset, acquisition, custody, transfer, disposal, costs, recorded>>

CommitCost(q) ==
  LET w == tx[q].row IN
  /\ Commits(q, {"create_maintenance_cost"})
  /\ costs[w] < MaxCosts
  /\ costs' = [costs EXCEPT ![w] = @ + 1]
  /\ UNCHANGED <<asset, acquisition, custody, transfer, order, disposal, recorded>>

CommitWorkOrder(q) ==
  LET t == tx[q]
      closes == t.call \in {"complete_work_order", "cancel_work_order"}
  IN /\ Commits(q, OrderCalls \ {"create_maintenance_cost"})
     /\ order' = [order EXCEPT ![t.row] = Advanced(q)]
     /\ CASE t.call = "start_work_order" /\ t.sawAsset.status = "ACTIVE" ->
               WriteAssetStatus(q, "IN_MAINTENANCE")
          [] closes /\ t.sawAsset.status = "IN_MAINTENANCE" /\ ~t.blocked ->
               WriteAssetStatus(q, "ACTIVE")
          [] OTHER -> UNCHANGED asset
     /\ recorded' = IF t.call = "complete_work_order"
                      THEN [recorded EXCEPT ![t.row] = t.total] ELSE recorded
     /\ UNCHANGED <<acquisition, custody, transfer, disposal, costs>>

CommitCreateDisposal(q, d, u) ==
  /\ Commits(q, {"create_disposal"})
  /\ disposal[d].status = "ABSENT"
  /\ ~Lifecycle!HasOpenDisposal(tx[q].on)
  /\ disposal' = [disposal EXCEPT ![d] = [status |-> "DRAFT", asset |-> tx[q].on,
                                          requester |-> u, approver |-> None]]
  /\ UNCHANGED <<asset, acquisition, custody, transfer, order, costs, recorded>>

CommitApproveDisposal(q, u) ==
  /\ Commits(q, {"approve_disposal"})
  /\ u # tx[q].sawRow.requester
  /\ disposal' = [disposal EXCEPT ![tx[q].row] = [Advanced(q) EXCEPT !.approver = u]]
  /\ UNCHANGED <<asset, acquisition, custody, transfer, order, costs, recorded>>

CommitDisposal(q) ==
  LET t == tx[q] IN
  /\ Commits(q, DisposalCalls \ {"approve_disposal"})
  /\ disposal' = [disposal EXCEPT ![t.row] = Advanced(q)]
  /\ IF t.call = "complete_disposal"
       THEN /\ t.sawRow.approver # t.sawRow.requester
            /\ ~t.blocked
            /\ WriteAssetStatus(q, "DISPOSED")
       ELSE UNCHANGED asset
  /\ UNCHANGED <<acquisition, custody, transfer, order, costs, recorded>>

Commit(q) ==
  /\ \/ CommitCapitalization(q) \/ CommitReturn(q) \/ CommitTransfer(q)
     \/ CommitCost(q) \/ CommitWorkOrder(q) \/ CommitDisposal(q)
     \/ \E s \in {"UNDATED", "DRAFT"} : CommitUpdateAcquisition(q, s)
     \/ \E p \in Places : CommitAssign(q, p)
     \/ \E r \in Transfers, p \in Places : CommitRequestTransfer(q, r, p)
     \/ \E w \in WorkOrders : CommitCreateWorkOrder(q, w)
     \/ \E d \in Disposals, u \in Users : CommitCreateDisposal(q, d, u)
     \/ \E u \in Users : CommitApproveDisposal(q, u)
  /\ End(q)

\* a rejected or failed statement, a lost connection, a killed worker: PostgreSQL rolls
\* the transaction back and releases its locks
Rollback(q) == tx[q].step # "idle" /\ End(q) /\ UNCHANGED rows

\* the services that lock one row and read nothing else are atomic as they are
MasterData ==
  /\ \E a \in Assets :
       /\ lock[a] = None
       /\ \/ \E p \in Places : Lifecycle!CreateAsset(a, p) \/ Lifecycle!UpdateAsset(a, p)
          \/ \E s \in {"UNDATED", "DRAFT"} : Lifecycle!CreateAcquisition(a, s)
  /\ UNCHANGED <<costs, recorded, lock, tx>>

Step(q) ==
  \/ \E call \in Calls : \/ \E r \in Rows : LockRow(q, call, r)
                         \/ \E a \in Assets : LockAssetFirst(q, call, a)
                         \/ \E a \in Assets : LockAcquisition(q, call, a)
  \/ LockLast(q) \/ LockAsset(q) \/ RejectAsset(q)
  \/ ReadCustody(q) \/ ReadTransfers(q) \/ ReadOrders(q)
  \/ Commit(q) \/ Rollback(q)

Next == MasterData \/ \E q \in Requests : Step(q)

Spec == Init /\ [][Next]_vars

-----------------------------------------------------------------------------
(* Properties *)

\* Whatever the interleaving of locks, unlocked reads, commits and rollbacks, the
\* committed rows move as if every service were one atomic step of AssetLifecycle: no
\* lost update, no disposal over an operation opened meanwhile, no asset left in or out
\* of maintenance by two orders closing together.
ImplementsLifecycle == Lifecycle!Spec

\* A maintenance record holds every cost its order ever gets: no cost slips in between
\* the sum and the close of the order (maintenance/services.py complete_work_order,
\* create_maintenance_cost).
RecordedCostIsComplete ==
  \A w \in WorkOrders : recorded[w] # None => recorded[w] = costs[w]

\* q's transaction is at a lock that r has
WaitsFor(q, r) ==
  LET t == tx[q] IN
  \/ t.step = "asset" /\ lock[SecondLock(t.call, t.row, t.on)] = r
  \/ t.step = "last" /\ lock[LastLock(t.call, t.on)] = r

\* Requests never wait for these locks in a circle of any length, for which PostgreSQL would
\* abort one as a deadlock victim: every service takes the workflow row before the asset and
\* an assignment or the work order sequence after it, so among any requests there is one
\* that waits for none of them.
NoCircularWait ==
  \A S \in (SUBSET Requests) \ {{}} : \E q \in S : \A r \in S : ~WaitsFor(q, r)
=============================================================================
