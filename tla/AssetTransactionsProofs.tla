---------------------- MODULE AssetTransactionsProofs ----------------------
(***************************************************************************)
(* Proofs about AssetTransactions, for any number of assets, rows, users   *)
(* and request handlers: under row locks and unlocked reads every commit   *)
(* is one atomic step of AssetLifecycle, a closed work order recorded all  *)
(* its costs, and no requests wait for each other in a circle.             *)
(*                                                                         *)
(* L is AssetLifecycle with its theorems, over the committed rows.         *)
(***************************************************************************)
EXTENDS AssetTransactions, TLAPS

L == INSTANCE AssetLifecycleProofs WITH
  Plans <- {}, plan <- [p \in {} |-> p],
  MaxCorrections <- 0, corrections <- [a \in Assets |-> 0]

-----------------------------------------------------------------------------
(* The inductive invariant *)

Steps == {"idle", "asset", "last", "read_custody", "read_transfers", "read_orders", "commit"}
RowCalls == TransferCalls \cup OrderCalls \cup DisposalCalls
Closing == {"complete_work_order", "cancel_work_order"}

\* what a SELECT ... FOR UPDATE of a workflow row returns
Seen == Lifecycle!TransferRow \cup Lifecycle!WorkOrderRow \cup Lifecycle!DisposalRow \cup {None}

Transaction == [call : Calls \cup {"none"}, row : Rows \cup {None}, on : Assets \cup {None},
                step : Steps, sawRow : Seen, sawAsset : Lifecycle!AssetRow \cup {None},
                blocked : BOOLEAN, total : Nat]

RequestsTyped ==
  /\ tx \in [Requests -> Transaction]
  /\ lock \in [Rows -> Requests \cup {None}]

CostsTyped ==
  /\ costs \in [WorkOrders -> Nat]
  /\ recorded \in [WorkOrders -> Nat \cup {None}]

Busy(q) == tx[q].step # "idle"

\* a transaction past the lock on its asset
HoldsAsset(q) == tx[q].step \notin {"idle", "asset"} /\ tx[q].call \notin RowOnly

\* which steps a call goes through
OnCourse(q) ==
  LET t == tx[q] IN
  /\ t.on \in Assets /\ t.call \in Calls
  /\ t.call \in RowOnly => t.step = "commit"
  /\ t.call \in AssetCalls => t.step \in {"last", "commit"}
  /\ t.step = "last" => t.call \in TakesLast
  /\ t.step \in {"read_custody", "read_transfers"} => t.call = "complete_disposal"
  /\ t.step = "read_orders" => t.call \in Closing \cup {"complete_disposal"}

\* the workflow row is locked and as it was read
KnowsRow(q) ==
  LET t == tx[q] IN
  t.call \in RowCalls =>
    /\ t.row \in RowsOf(t.call) /\ lock[t.row] = q
    /\ t.sawRow = Row(t.row)
    /\ Row(t.row).status \in From(t.call) /\ Row(t.row).asset = t.on

KnowsAcquisition(q) ==
  LET t == tx[q] IN
  t.call \in AcquisitionCalls =>
    /\ t.row = AcquisitionRow(t.on) /\ lock[t.row] = q
    /\ acquisition[t.on] \in From(t.call)

\* the asset is locked and as it was read
KnowsAsset(q) ==
  LET t == tx[q] IN
  HoldsAsset(q) =>
    /\ lock[t.on] = q /\ t.sawAsset = asset[t.on]
    /\ asset[t.on].status \in AssetGuard(t.call)

\* the assignment that return_asset locked is still open
KnowsCustody(q) ==
  tx[q].call = "return_asset" /\ tx[q].step = "commit" => custody[tx[q].on]

\* what a disposal found clear stays clear, although it locked none of those rows
KnowsClear(q) ==
  LET t == tx[q] IN
  t.call = "complete_disposal" /\ ~t.blocked =>
    /\ t.step \in {"read_transfers", "read_orders", "commit"} => ~custody[t.on]
    /\ t.step \in {"read_orders", "commit"} => ~Lifecycle!HasOpenTransfer(t.on)
    /\ t.step = "commit" => ~Lifecycle!HasOpenOrder(t.on)

ActiveOn(w, a) == order[w].asset = a /\ order[w].status \in Lifecycle!ActiveOrderStates

\* what the close of a work order read is still so: the other orders, and its costs
KnowsOthers(q) ==
  LET t == tx[q] IN
  t.call \in Closing /\ t.step = "commit" =>
    (t.blocked <=> \E v \in WorkOrders \ {t.row} : ActiveOn(v, t.on))

KnowsCosts(q) ==
  LET t == tx[q] IN
  t.call = "complete_work_order" /\ t.step = "commit" => t.total = costs[t.row]

Knows(q) ==
  Busy(q) => OnCourse(q) /\ KnowsRow(q) /\ KnowsAcquisition(q) /\ KnowsAsset(q)
               /\ KnowsCustody(q) /\ KnowsClear(q) /\ KnowsOthers(q) /\ KnowsCosts(q)

\* The order of the locks: whoever has an asset's lock waits at most for a last row, and
\* whoever has a last row waits for nothing.
LockOrder ==
  /\ \A a \in Assets : lock[a] # None => tx[lock[a]].step \notin {"idle", "asset"}
  /\ \A r \in LastRows : lock[r] # None => tx[lock[r]].step = "commit"

\* only the close of an order records its cost
RecordedWhenClosed ==
  \A w \in WorkOrders :
    recorded[w] # None => order[w].status = "COMPLETED" /\ recorded[w] = costs[w]

Inv ==
  /\ L!Shape /\ RequestsTyped /\ CostsTyped
  /\ \A q \in Requests : Knows(q)
  /\ LockOrder /\ RecordedWhenClosed

-----------------------------------------------------------------------------
(* Lifecycle and L are the same specification *)

LEMMA SameTypes ==
  /\ L!RowsTyped <=> Lifecycle!RowsTyped
  /\ Lifecycle!vars = L!vars
BY DEF L!RowsTyped, Lifecycle!RowsTyped, L!AssetRow, Lifecycle!AssetRow, L!AssetStatus,
       Lifecycle!AssetStatus, L!Uncapitalized, Lifecycle!Uncapitalized, L!Movable,
       Lifecycle!Movable, L!AcquisitionStatus, Lifecycle!AcquisitionStatus, L!TransferRow,
       Lifecycle!TransferRow, L!OpenTransferStates, Lifecycle!OpenTransferStates,
       L!WorkOrderRow, Lifecycle!WorkOrderRow, L!ActiveOrderStates, L!OpenOrderStates,
       Lifecycle!ActiveOrderStates, Lifecycle!OpenOrderStates, L!PlanRow, Lifecycle!PlanRow,
       L!OpenDisposalStates, Lifecycle!OpenDisposalStates, L!DisposalRow,
       Lifecycle!DisposalRow, Lifecycle!vars, L!vars, Lifecycle!rows, L!rows

LEMMA SameInit == Lifecycle!Init => L!Init
BY DEF Lifecycle!Init, L!Init

LEMMA SameCardinality == \A S : Lifecycle!Cardinality(S) = L!Cardinality(S)
BY DEF Lifecycle!Cardinality, L!Cardinality

LEMMA SameAssetNext == Lifecycle!AssetNext => L!AssetNext
BY SameCardinality
   DEF L!AssetNext, L!CreateAsset, L!UpdateAsset, L!AssignAsset, L!CreateAcquisition,
       L!UpdateAcquisition, L!CapitalizeAcquisition, L!ReturnAsset, L!Registered,
       L!SetAssetStatus, L!Movable, L!Uncapitalized, L!AcquisitionStatus,
       Lifecycle!AssetNext, Lifecycle!CreateAsset, Lifecycle!UpdateAsset,
       Lifecycle!AssignAsset, Lifecycle!CreateAcquisition, Lifecycle!UpdateAcquisition,
       Lifecycle!CapitalizeAcquisition, Lifecycle!ReturnAsset, Lifecycle!Registered,
       Lifecycle!SetAssetStatus, Lifecycle!Movable, Lifecycle!Uncapitalized,
       Lifecycle!AcquisitionStatus

LEMMA SameTransferNext == Lifecycle!TransferNext => L!TransferNext
BY DEF L!TransferNext, L!RequestTransfer, L!ApproveTransfer, L!RejectTransfer,
       L!CancelTransfer, L!TransitionTransfer, L!CompleteTransfer, L!HasOpenTransfer,
       L!OpenTransferStates, L!Movable,
       Lifecycle!TransferNext, Lifecycle!RequestTransfer, Lifecycle!ApproveTransfer,
       Lifecycle!RejectTransfer, Lifecycle!CancelTransfer, Lifecycle!TransitionTransfer,
       Lifecycle!CompleteTransfer, Lifecycle!HasOpenTransfer,
       Lifecycle!OpenTransferStates, Lifecycle!Movable

LEMMA SameWorkOrderNext == Lifecycle!WorkOrderNext => L!WorkOrderNext
BY DEF L!WorkOrderNext, L!CreateWorkOrder, L!AssignWorkOrder, L!StartWorkOrder,
       L!CompleteWorkOrder, L!CancelWorkOrder, L!RestoreAssetIfNoActiveWork,
       L!SetAssetStatus, L!OpenOrderStates, L!ActiveOrderStates, L!Movable,
       Lifecycle!WorkOrderNext, Lifecycle!CreateWorkOrder, Lifecycle!AssignWorkOrder,
       Lifecycle!StartWorkOrder, Lifecycle!CompleteWorkOrder, Lifecycle!CancelWorkOrder,
       Lifecycle!RestoreAssetIfNoActiveWork, Lifecycle!SetAssetStatus,
       Lifecycle!OpenOrderStates, Lifecycle!ActiveOrderStates, Lifecycle!Movable

LEMMA SameDisposalNext == Lifecycle!DisposalNext => L!DisposalNext
BY DEF L!DisposalNext, L!CreateDisposal, L!ApproveDisposal, L!SubmitDisposal,
       L!RejectDisposal, L!CancelDisposal, L!CompleteDisposal, L!NoOpenOperations,
       L!HasOpenTransfer, L!HasOpenOrder, L!HasOpenDisposal, L!SetAssetStatus,
       L!OpenDisposalStates, L!OpenTransferStates, L!OpenOrderStates, L!ActiveOrderStates,
       Lifecycle!DisposalNext, Lifecycle!CreateDisposal, Lifecycle!ApproveDisposal,
       Lifecycle!SubmitDisposal, Lifecycle!RejectDisposal, Lifecycle!CancelDisposal,
       Lifecycle!CompleteDisposal, Lifecycle!NoOpenOperations, Lifecycle!HasOpenTransfer,
       Lifecycle!HasOpenOrder, Lifecycle!HasOpenDisposal, Lifecycle!SetAssetStatus,
       Lifecycle!OpenDisposalStates, Lifecycle!OpenTransferStates,
       Lifecycle!OpenOrderStates, Lifecycle!ActiveOrderStates

LEMMA SameAdminNext == Lifecycle!AdminNext => L!AdminNext
BY DEF L!AdminNext, L!AdminCreateAsset, L!CorrectAsset,
       Lifecycle!AdminNext, Lifecycle!AdminCreateAsset, Lifecycle!CorrectAsset

LEMMA SameNext == [Lifecycle!Next]_Lifecycle!vars => [L!Next]_L!vars
<1>1. ~Lifecycle!PlanNext
  BY DEF Lifecycle!PlanNext
<1> QED
  BY <1>1, SameTypes, SameAssetNext, SameTransferNext, SameWorkOrderNext, SameDisposalNext,
     SameAdminNext
     DEF Lifecycle!Next, Lifecycle!ServiceNext, L!Next, L!ServiceNext, Lifecycle!vars, L!vars,
         Lifecycle!rows, L!rows

\* a step of the lifecycle keeps every row in shape
LEMMA ShapeStays == L!Shape /\ [Lifecycle!Next]_Lifecycle!vars => L!Shape'
<1>1. None \notin Assets \cup Places \cup Users /\ AssetLimit \in Nat /\ 0 \in Nat
  BY NoneIsNothing, LimitIsNat
<1> QED
  BY <1>1, SameNext, L!ShapeInductive

\* what the proofs use of the shape of the rows
LEMMA RowsInShape ==
  ASSUME L!Shape
  PROVE  /\ asset \in [Assets -> Lifecycle!AssetRow]
         /\ acquisition \in [Assets -> Lifecycle!AcquisitionStatus]
         /\ custody \in [Assets -> BOOLEAN]
         /\ transfer \in [Transfers -> Lifecycle!TransferRow]
         /\ order \in [WorkOrders -> Lifecycle!WorkOrderRow]
         /\ disposal \in [Disposals -> Lifecycle!DisposalRow]
         /\ \A t \in Transfers : transfer[t].status # "ABSENT" => transfer[t].asset \in Assets
         /\ \A w \in WorkOrders : order[w].status # "ABSENT" => order[w].asset \in Assets
         /\ \A d \in Disposals : disposal[d].status # "ABSENT" => disposal[d].asset \in Assets
<1>1. Lifecycle!RowsTyped /\ L!NamesAssets
  BY SameTypes DEF L!Shape
<1> QED
  BY <1>1 DEF Lifecycle!RowsTyped, L!NamesAssets

-----------------------------------------------------------------------------
(* What a step leaves to the transactions of other requests *)

OpenTransferOn(t, a) == transfer[t].asset = a /\ transfer[t].status \in Lifecycle!OpenTransferStates
OpenOrderOn(w, a) == order[w].asset = a /\ order[w].status \in Lifecycle!OpenOrderStates

\* Rows change, are opened on an asset or start to keep it in maintenance only under q's
\* locks; a row that is inserted and an acquisition that was no draft have none to wait for.
\* For q = None the asset's row is not locked at all.
TransfersFramed(q) ==
  /\ \A t \in Transfers :
       transfer'[t] # transfer[t] => lock[t] = q \/ transfer[t].status = "ABSENT"
  /\ \A t \in Transfers, a \in Assets :
       OpenTransferOn(t, a)' /\ ~OpenTransferOn(t, a) => lock[a] = q

OrdersFramed(q) ==
  /\ \A w \in WorkOrders : order'[w] # order[w] => lock[w] = q \/ order[w].status = "ABSENT"
  /\ \A w \in WorkOrders, a \in Assets :
       OpenOrderOn(w, a)' /\ ~OpenOrderOn(w, a) => lock[a] = q
  /\ \A w \in WorkOrders, a \in Assets : ActiveOn(w, a)' # ActiveOn(w, a) => lock[a] = q

DisposalsFramed(q) ==
  \A d \in Disposals :
    disposal'[d] # disposal[d] => lock[d] = q \/ disposal[d].status = "ABSENT"

AssetsFramed(q) ==
  \A a \in Assets : asset'[a] # asset[a] \/ custody'[a] # custody[a] => lock[a] = q

AcquisitionsFramed(q) ==
  \A a \in Assets :
    acquisition'[a] # acquisition[a] =>
      lock[AcquisitionRow(a)] = q \/ acquisition[a] \notin {"UNDATED", "DRAFT"}

CostsFramed(q) == \A w \in WorkOrders : costs'[w] # costs[w] => lock[w] = q

RowsFramed(q) ==
  TransfersFramed(q) /\ OrdersFramed(q) /\ DisposalsFramed(q) /\ AssetsFramed(q)
    /\ AcquisitionsFramed(q) /\ CostsFramed(q)

\* The locks and the transaction of p are p's own.
OthersFramed(q) ==
  \A p \in Requests \ {q} :
    tx'[p] = tx[p] /\ \A r \in Rows : lock[r] = p => lock'[r] = p

LEMMA StillFramed ==
  ASSUME NEW q
  PROVE  /\ UNCHANGED transfer => TransfersFramed(q)
         /\ UNCHANGED order => OrdersFramed(q)
         /\ UNCHANGED disposal => DisposalsFramed(q)
         /\ UNCHANGED <<asset, custody>> => AssetsFramed(q)
         /\ UNCHANGED acquisition => AcquisitionsFramed(q)
         /\ UNCHANGED costs => CostsFramed(q)
         /\ UNCHANGED rows => RowsFramed(q)
BY DEF rows, RowsFramed, TransfersFramed, OrdersFramed, DisposalsFramed, AssetsFramed,
       AcquisitionsFramed, CostsFramed, OpenTransferOn, OpenOrderOn, ActiveOn

\* the statuses a service accepts are those of rows that exist and are not closed
LEMMA FromOpen ==
  ASSUME NEW call \in RowCalls
  PROVE  /\ "ABSENT" \notin From(call) /\ "COMPLETED" \notin From(call)
BY DEF RowCalls, TransferCalls, OrderCalls, DisposalCalls, From

LEMMA RowsOfTables ==
  /\ \A call \in RowCalls : RowsOf(call) \subseteq Rows
  /\ \A call \in TransferCalls : RowsOf(call) = Transfers
  /\ \A call \in OrderCalls : RowsOf(call) = WorkOrders
  /\ \A call \in DisposalCalls : RowsOf(call) = Disposals
BY DEF RowCalls, TransferCalls, OrderCalls, DisposalCalls, RowsOf, Rows

LEMMA KnowsRowStays ==
  ASSUME NEW q, NEW p \in Requests, p # q, RowsFramed(q), OthersFramed(q), KnowsRow(p)
  PROVE  KnowsRow(p)'
<1> SUFFICES ASSUME tx[p].call \in RowCalls
             PROVE  KnowsRow(p)'
  BY DEF OthersFramed, KnowsRow
<1> DEFINE r == tx[p].row
<1>1. r \in RowsOf(tx[p].call) /\ r \in Rows /\ lock[r] = p /\ lock'[r] = p /\ tx'[p] = tx[p]
  BY RowsOfTables DEF KnowsRow, OthersFramed
<1>2. r \in Transfers \cup WorkOrders \cup Disposals
  BY <1>1, RowsOfTables DEF RowCalls
<1>3. Row(r).status # "ABSENT"
  BY FromOpen DEF KnowsRow
<1>4. Row(r)' = Row(r)
  <2>1. CASE r \in Transfers
    BY <1>1, <1>3, <2>1 DEF Row, RowsFramed, TransfersFramed
  <2>2. CASE r \notin Transfers /\ r \in WorkOrders
    BY <1>1, <1>3, <2>2 DEF Row, RowsFramed, OrdersFramed
  <2>3. CASE r \notin Transfers /\ r \notin WorkOrders
    BY <1>1, <1>2, <1>3, <2>3 DEF Row, RowsFramed, DisposalsFramed
  <2> QED
    BY <2>1, <2>2, <2>3
<1> QED
  BY <1>1, <1>4 DEF KnowsRow

LEMMA KnowsAcquisitionStays ==
  ASSUME NEW q, NEW p \in Requests, p # q, RowsFramed(q), OthersFramed(q), OnCourse(p),
         KnowsAcquisition(p)
  PROVE  KnowsAcquisition(p)'
<1>1. tx'[p] = tx[p] /\ \A r \in Rows : lock[r] = p => lock'[r] = p
  BY DEF OthersFramed
<1>2. \A a \in Assets : AcquisitionRow(a) \in Rows
  BY DEF Rows
<1> QED
  BY <1>1, <1>2 DEF RowsFramed, AcquisitionsFramed, OnCourse, KnowsAcquisition, From, AcquisitionCalls

LEMMA KnowsAssetStays ==
  ASSUME NEW q, NEW p \in Requests, p # q, RowsFramed(q), OthersFramed(q), OnCourse(p),
         KnowsAsset(p)
  PROVE  KnowsAsset(p)'
<1>1. tx'[p] = tx[p] /\ \A r \in Rows : lock[r] = p => lock'[r] = p
  BY DEF OthersFramed
<1>2. tx[p].on \in Rows /\ tx[p].on \in Assets
  BY DEF OnCourse, Rows
<1>3. HoldsAsset(p)' <=> HoldsAsset(p)
  BY <1>1 DEF HoldsAsset
<1>4. HoldsAsset(p) => asset'[tx[p].on] = asset[tx[p].on]
  BY <1>2 DEF KnowsAsset, RowsFramed, AssetsFramed
<1> QED
  BY <1>1, <1>2, <1>3, <1>4 DEF KnowsAsset

LEMMA KnowsCustodyStays ==
  ASSUME NEW q, NEW p \in Requests, p # q, RowsFramed(q), OthersFramed(q), OnCourse(p),
         KnowsAsset(p), KnowsCustody(p)
  PROVE  KnowsCustody(p)'
<1>1. tx'[p] = tx[p] /\ tx[p].on \in Assets
  BY DEF OthersFramed, OnCourse
<1>2. tx[p].call = "return_asset" /\ tx[p].step = "commit" => lock[tx[p].on] = p
  BY DEF KnowsAsset, HoldsAsset, RowOnly
<1> QED
  BY <1>1, <1>2 DEF KnowsCustody, RowsFramed, AssetsFramed

LEMMA KnowsClearStays ==
  ASSUME NEW q, NEW p \in Requests, p # q, RowsFramed(q), OthersFramed(q), OnCourse(p),
         KnowsAsset(p), KnowsClear(p)
  PROVE  KnowsClear(p)'
<1> DEFINE a == tx[p].on
<1>1. tx'[p] = tx[p] /\ a \in Assets
  BY DEF OthersFramed, OnCourse
<1> SUFFICES ASSUME tx[p].call = "complete_disposal", ~tx[p].blocked,
                    tx[p].step \in {"read_transfers", "read_orders", "commit"}
             PROVE  KnowsClear(p)'
  BY <1>1 DEF KnowsClear
<1>2. lock[a] = p
  BY DEF KnowsAsset, HoldsAsset, RowOnly
<1>3. custody'[a] = custody[a]
  BY <1>1, <1>2 DEF RowsFramed, AssetsFramed
<1>4. Lifecycle!HasOpenTransfer(a)' => Lifecycle!HasOpenTransfer(a)
  BY <1>1, <1>2 DEF RowsFramed, TransfersFramed, Lifecycle!HasOpenTransfer, OpenTransferOn
<1>5. Lifecycle!HasOpenOrder(a)' => Lifecycle!HasOpenOrder(a)
  BY <1>1, <1>2 DEF RowsFramed, OrdersFramed, Lifecycle!HasOpenOrder, OpenOrderOn
<1> HIDE DEF a
<1>6. KnowsClear(p)' <=>
        /\ tx[p].step \in {"read_transfers", "read_orders", "commit"} => ~custody'[a]
        /\ tx[p].step \in {"read_orders", "commit"} => ~Lifecycle!HasOpenTransfer(a)'
        /\ tx[p].step = "commit" => ~Lifecycle!HasOpenOrder(a)'
  BY <1>1 DEF KnowsClear, a, Lifecycle!HasOpenTransfer, Lifecycle!HasOpenOrder
<1> QED
  BY <1>3, <1>4, <1>5, <1>6 DEF KnowsClear, a

LEMMA KnowsOthersStays ==
  ASSUME NEW q, NEW p \in Requests, p # q, RowsFramed(q), OthersFramed(q), OnCourse(p),
         KnowsAsset(p), KnowsOthers(p)
  PROVE  KnowsOthers(p)'
<1>1. tx'[p] = tx[p] /\ tx[p].on \in Assets
  BY DEF OthersFramed, OnCourse
<1> SUFFICES ASSUME tx[p].call \in Closing, tx[p].step = "commit" PROVE KnowsOthers(p)'
  BY <1>1 DEF KnowsOthers
<1>2. lock[tx[p].on] = p
  BY DEF KnowsAsset, HoldsAsset, RowOnly, Closing
<1>3. \A v \in WorkOrders : ActiveOn(v, tx[p].on)' <=> ActiveOn(v, tx[p].on)
  BY <1>1, <1>2 DEF RowsFramed, OrdersFramed, ActiveOn
<1> QED
  BY <1>1, <1>3 DEF KnowsOthers, ActiveOn

LEMMA KnowsCostsStays ==
  ASSUME NEW q, NEW p \in Requests, p # q, RowsFramed(q), OthersFramed(q), KnowsRow(p),
         KnowsCosts(p)
  PROVE  KnowsCosts(p)'
<1>1. tx'[p] = tx[p]
  BY DEF OthersFramed
<1>2. tx[p].call = "complete_work_order" => tx[p].row \in WorkOrders /\ lock[tx[p].row] = p
  BY DEF KnowsRow, RowCalls, OrderCalls, DisposalCalls, TransferCalls, RowsOf
<1> QED
  BY <1>1, <1>2 DEF KnowsCosts, RowsFramed, CostsFramed

\* What a request knows holds through every step of another request.
LEMMA KnowsStays ==
  ASSUME NEW q, NEW p \in Requests, p # q, RowsFramed(q), OthersFramed(q), Knows(p)
  PROVE  Knows(p)'
<1>1. tx'[p] = tx[p]
  BY DEF OthersFramed
<1>2. CASE Busy(p)
  <2>1. OnCourse(p)'
    BY <1>1, <1>2 DEF Knows, OnCourse
  <2> QED
    BY <1>2, <2>1, KnowsRowStays, KnowsAcquisitionStays, KnowsAssetStays, KnowsCustodyStays,
       KnowsClearStays, KnowsOthersStays, KnowsCostsStays
       DEF Knows
<1>3. CASE ~Busy(p)
  BY <1>1, <1>3 DEF Knows, Busy
<1> QED
  BY <1>2, <1>3

-----------------------------------------------------------------------------
(* Steps that take a lock, read or end: the committed rows stay *)

\* What a step of q does to the requests: others keep what is theirs, q knows what it
\* locked and read, and whoever has an asset's lock waits for nothing.
RequestsKept(q) == OthersFramed(q) /\ Knows(q)' /\ RequestsTyped' /\ LockOrder'

LEMMA RowsAreLockable ==
  /\ Assets \subseteq Rows /\ LastRows \subseteq Rows /\ LastRows \cap Assets = {}
  /\ \A a \in Assets :
       AcquisitionRow(a) \in Rows /\ AcquisitionRow(a) \notin Assets \cup LastRows
  /\ \A call \in RowCalls : \A r \in RowsOf(call) : r \in Rows /\ r \notin Assets \cup LastRows
<1>1. \A call \in RowCalls : \A r \in RowsOf(call) : r \in Rows /\ r \notin Assets \cup LastRows
  BY RowsOfTables, TablesAreDisjoint DEF RowCalls
<1> QED
  BY <1>1, TablesAreDisjoint DEF Rows

LEMMA LockOrderStays ==
  ASSUME NEW q \in Requests, RequestsTyped, LockOrder,
         \A p \in Requests \ {q} : tx'[p] = tx[p],
         \A r \in Assets \cup LastRows : lock'[r] \in {lock[r], None} \/ lock'[r] = q,
         \A a \in Assets : lock'[a] = q => tx'[q].step \notin {"idle", "asset"},
         \A r \in LastRows : lock'[r] = q => tx'[q].step = "commit"
  PROVE  LockOrder'
<1>1. ASSUME NEW r \in Assets \cup LastRows, lock'[r] # None, lock'[r] # q
      PROVE  lock'[r] = lock[r] /\ tx'[lock'[r]] = tx[lock[r]]
  <2>1. lock'[r] = lock[r] /\ lock[r] \in Requests
    BY <1>1, RowsAreLockable DEF RequestsTyped
  <2> QED
    BY <1>1, <2>1
<1>2. ASSUME NEW a \in Assets, lock'[a] # None
      PROVE  tx'[lock'[a]].step \notin {"idle", "asset"}
  BY <1>1, <1>2 DEF LockOrder
<1>3. ASSUME NEW r \in LastRows, lock'[r] # None
      PROVE  tx'[lock'[r]].step = "commit"
  BY <1>1, <1>3 DEF LockOrder
<1>4. LastRows' = LastRows
  BY DEF LastRows, AssignmentRow, SequenceRow
<1> QED
  BY <1>2, <1>3, <1>4 DEF LockOrder

\* a request that waits, or has not begun, has no last row
LEMMA NoLastRow ==
  ASSUME NEW q \in Requests, LockOrder, tx[q].step # "commit"
  PROVE  /\ \A r \in LastRows : lock[r] # q
         /\ tx[q].step \in {"idle", "asset"} => \A a \in Assets : lock[a] # q
BY NoneIsNothing DEF LockOrder

\* q takes a free lock; q's transaction is the only one that moves
Locks(q, r) == lock[r] = None /\ lock' = [lock EXCEPT ![r] = q]
Moves(q) == tx' = [tx EXCEPT ![q] = tx'[q]] /\ tx'[q] \in Transaction

LEMMA LockTaken ==
  ASSUME NEW q \in Requests, NEW r \in Rows, RequestsTyped, Locks(q, r), Moves(q)
  PROVE  /\ OthersFramed(q) /\ RequestsTyped' /\ lock'[r] = q
         /\ \A s \in Rows : s # r => lock'[s] = lock[s]
<1>1. \A p \in Requests : p # None
  BY NoneIsNothing
<1> QED
  BY <1>1 DEF RequestsTyped, OthersFramed, Locks, Moves

LEMMA ReadKeeps ==
  ASSUME NEW q \in Requests, RequestsTyped, LockOrder, UNCHANGED lock, Moves(q),
         tx[q].step # "commit", tx'[q].step \notin {"idle", "asset"}
  PROVE  OthersFramed(q) /\ RequestsTyped' /\ LockOrder'
<1>1. OthersFramed(q) /\ RequestsTyped'
  BY DEF RequestsTyped, OthersFramed, Moves
<1>2. LockOrder'
  BY <1>1, NoLastRow, LockOrderStays DEF OthersFramed
<1> QED
  BY <1>1, <1>2

LEMMA IdleTyped ==
  /\ Idle \in Transaction /\ Idle.step = "idle"
  /\ Idle = [call |-> "none", row |-> None, on |-> None, step |-> "idle",
             sawRow |-> None, sawAsset |-> None, blocked |-> FALSE, total |-> 0]
BY DEF Idle, Transaction, Steps, Seen

LEMMA EndKeeps ==
  ASSUME NEW q \in Requests, RequestsTyped, LockOrder, End(q)
  PROVE  RequestsKept(q)
<1>1. lock' = [r \in Rows |-> IF lock[r] = q THEN None ELSE lock[r]]
  BY DEF End, Release
<1>2. tx' = [tx EXCEPT ![q] = Idle]
  BY DEF End
<1>3. OthersFramed(q) /\ RequestsTyped' /\ tx'[q] = Idle
  BY <1>1, <1>2, IdleTyped DEF RequestsTyped, OthersFramed
<1>4. Knows(q)'
  BY <1>3, IdleTyped DEF Knows, Busy
<1>5. \A r \in Assets \cup LastRows : lock'[r] \in {lock[r], None} /\ lock'[r] # q
  <2>1. q # None
    BY NoneIsNothing
  <2> QED
    BY <1>1, <2>1, RowsAreLockable
<1>6. LockOrder'
  BY <1>3, <1>5, LockOrderStays DEF OthersFramed
<1> QED
  BY <1>3, <1>4, <1>6 DEF RequestsKept

LEMMA RowInShape ==
  ASSUME L!Shape, NEW call \in RowCalls, NEW r \in RowsOf(call)
  PROVE  /\ Row(r) \in Seen
         /\ Row(r).status # "ABSENT" => Row(r).asset \in Assets
<1>1. r \in Transfers \cup WorkOrders \cup Disposals
  BY RowsOfTables DEF RowCalls
<1> QED
  BY <1>1, RowsInShape DEF Row, Seen

LEMMA LockRowKeeps ==
  ASSUME NEW q \in Requests, NEW call \in Calls, NEW r \in Rows, Inv, LockRow(q, call, r)
  PROVE  RequestsKept(q)
<1> DEFINE t == tx'[q]
<1>0. RequestsTyped /\ LockOrder /\ L!Shape
  BY DEF Inv
<1>1. call \in RowCalls /\ r \in RowsOf(call) /\ Row(r).status \in From(call)
  BY DEF LockRow, Calls, RowCalls, RowsOf
<1>2. r \notin Assets \cup LastRows /\ Row(r) \in Seen /\ Row(r).asset \in Assets
  BY <1>0, <1>1, RowsAreLockable, RowInShape, FromOpen
<1>3. t = [Idle EXCEPT !.call = call, !.row = r, !.on = Row(r).asset, !.sawRow = Row(r),
                       !.step = IF call \in RowOnly THEN "commit" ELSE "asset"]
  BY <1>0 DEF LockRow, RequestsTyped
<1>4. /\ t \in Transaction /\ t.call = call /\ t.row = r /\ t.on = Row(r).asset
      /\ t.sawRow = Row(r) /\ t.step = IF call \in RowOnly THEN "commit" ELSE "asset"
  BY <1>2, <1>3, IdleTyped DEF Transaction, Steps
<1>5. tx[q].step = "idle" /\ Locks(q, r) /\ Moves(q) /\ UNCHANGED rows
  BY <1>0, <1>3, <1>4 DEF LockRow, FirstLock, Locks, Moves, RequestsTyped
<1> HIDE DEF t
<1>6. /\ OthersFramed(q) /\ RequestsTyped' /\ lock'[r] = q
      /\ \A s \in Rows : s # r => lock'[s] = lock[s]
  BY <1>0, <1>5, LockTaken
<1>7. LockOrder'
  <2>1. \A s \in Assets \cup LastRows : lock'[s] = lock[s] /\ lock[s] # q
    BY <1>0, <1>2, <1>5, <1>6, RowsAreLockable, NoLastRow
  <2> QED
    BY <1>0, <1>6, <2>1, LockOrderStays DEF OthersFramed
<1>8. Row(r)' = Row(r)
  BY <1>5 DEF Row, rows
<1>9. OnCourse(q)'
  <2>1. call \notin AssetCalls
    BY <1>1 DEF RowCalls, TransferCalls, OrderCalls, DisposalCalls, AssetCalls
  <2> QED
    BY <1>2, <1>4, <2>1 DEF OnCourse, t
<1>10. KnowsRow(q)'
  BY <1>1, <1>4, <1>6, <1>8 DEF KnowsRow, Row, t
<1>11. KnowsAcquisition(q)'
  BY <1>1, <1>4 DEF KnowsAcquisition, AcquisitionCalls, RowCalls, TransferCalls, OrderCalls,
                     DisposalCalls, t
<1>12. /\ KnowsAsset(q)' /\ KnowsCustody(q)' /\ KnowsClear(q)' /\ KnowsOthers(q)'
       /\ KnowsCosts(q)'
  BY <1>4 DEF KnowsAsset, HoldsAsset, KnowsCustody, KnowsClear, KnowsOthers, KnowsCosts,
              RowOnly, Closing, t
<1> QED
  BY <1>6, <1>7, <1>9, <1>10, <1>11, <1>12 DEF RequestsKept, Knows

LEMMA LockAcquisitionKeeps ==
  ASSUME NEW q \in Requests, NEW call \in Calls, NEW a \in Assets, Inv,
         LockAcquisition(q, call, a)
  PROVE  RequestsKept(q)
<1> DEFINE t == tx'[q]
           r == AcquisitionRow(a)
<1>0. RequestsTyped /\ LockOrder
  BY DEF Inv
<1>1. r \in Rows /\ r \notin Assets \cup LastRows
  BY RowsAreLockable
<1> HIDE DEF r
<1>2. t = [Idle EXCEPT !.call = call, !.row = r, !.on = a, !.step = "asset"]
  BY <1>0 DEF LockAcquisition, RequestsTyped, r
<1>3. /\ t \in Transaction /\ t.call = call /\ t.row = r /\ t.on = a
      /\ t.step = "asset"
  BY <1>1, <1>2, IdleTyped DEF Transaction, Steps
<1>4. /\ tx[q].step = "idle" /\ Locks(q, r) /\ Moves(q) /\ UNCHANGED rows
      /\ call \in AcquisitionCalls /\ acquisition[a] \in From(call)
  BY <1>0, <1>2, <1>3 DEF LockAcquisition, Locks, Moves, RequestsTyped, r
<1> HIDE DEF t
<1>5. /\ OthersFramed(q) /\ RequestsTyped' /\ lock'[r] = q
      /\ \A s \in Rows : s # r => lock'[s] = lock[s]
  BY <1>0, <1>1, <1>4, LockTaken
<1>6. LockOrder'
  <2>1. \A s \in Assets \cup LastRows : lock'[s] = lock[s] /\ lock[s] # q
    BY <1>0, <1>1, <1>4, <1>5, RowsAreLockable, NoLastRow
  <2> QED
    BY <1>0, <1>5, <2>1, LockOrderStays DEF OthersFramed
<1>7. t.call \notin RowCalls \cup AssetCalls \cup RowOnly \cup Closing
      /\ t.call \notin {"complete_disposal", "return_asset"} /\ t.call \in Calls
  BY <1>3, <1>4 DEF RowCalls, TransferCalls, OrderCalls, DisposalCalls, AssetCalls,
                    AcquisitionCalls, RowOnly, Closing
<1>8. OnCourse(q)' /\ KnowsRow(q)'
  BY <1>3, <1>7 DEF OnCourse, KnowsRow, t
<1>9. KnowsAcquisition(q)'
  BY <1>3, <1>4, <1>5 DEF KnowsAcquisition, rows, t, r
<1>10. /\ KnowsAsset(q)' /\ KnowsCustody(q)' /\ KnowsClear(q)' /\ KnowsOthers(q)'
       /\ KnowsCosts(q)'
  BY <1>3, <1>7 DEF KnowsAsset, HoldsAsset, KnowsCustody, KnowsClear, KnowsOthers, KnowsCosts, t
<1> QED
  BY <1>5, <1>6, <1>8, <1>9, <1>10 DEF RequestsKept, Knows

LEMMA LockAssetFirstKeeps ==
  ASSUME NEW q \in Requests, NEW call \in Calls, NEW a \in Assets, Inv,
         LockAssetFirst(q, call, a)
  PROVE  RequestsKept(q)
<1> DEFINE t == tx'[q]
<1>0. RequestsTyped /\ LockOrder /\ asset \in [Assets -> Lifecycle!AssetRow]
  BY RowsInShape DEF Inv
<1>1. t = [Idle EXCEPT !.call = call, !.on = a, !.sawAsset = asset[a],
                       !.step = IF call \in TakesLast THEN "last" ELSE "commit"]
  BY <1>0 DEF LockAssetFirst, RequestsTyped
<1>2. asset[a] \in Lifecycle!AssetRow
  BY <1>0
<1>3. /\ t \in Transaction /\ t.call = call /\ t.on = a /\ t.sawAsset = asset[a]
      /\ t.step = IF call \in TakesLast THEN "last" ELSE "commit"
  BY <1>1, <1>2, IdleTyped DEF Transaction, Steps
<1>4. /\ tx[q].step = "idle" /\ Locks(q, a) /\ Moves(q) /\ UNCHANGED rows
      /\ call \in AssetCalls /\ asset[a].status \in AssetGuard(call)
  BY <1>0, <1>1, <1>3 DEF LockAssetFirst, Locks, Moves, RequestsTyped
<1> HIDE DEF t
<1>5. /\ OthersFramed(q) /\ RequestsTyped' /\ lock'[a] = q
      /\ \A s \in Rows : s # a => lock'[s] = lock[s]
  BY <1>0, <1>4, RowsAreLockable, LockTaken
<1>6. LockOrder'
  <2>1. \A s \in LastRows : lock'[s] = lock[s] /\ lock[s] # q
    BY <1>0, <1>4, <1>5, RowsAreLockable, NoLastRow
  <2>2. \A b \in Assets : lock'[b] = lock[b] \/ lock'[b] = q
    BY <1>5, RowsAreLockable
  <2> QED
    BY <1>0, <1>3, <1>5, <2>1, <2>2, LockOrderStays DEF OthersFramed, t
<1>7. t.call \notin RowCalls \cup RowOnly \cup Closing \cup AcquisitionCalls
      /\ t.call # "complete_disposal"
  BY <1>3, <1>4 DEF RowCalls, TransferCalls, OrderCalls, DisposalCalls, AssetCalls,
                    AcquisitionCalls, RowOnly, Closing
<1>8. OnCourse(q)' /\ KnowsRow(q)' /\ KnowsAcquisition(q)'
  BY <1>3, <1>7 DEF OnCourse, KnowsRow, KnowsAcquisition, t
<1>9. KnowsAsset(q)'
  BY <1>3, <1>4, <1>5 DEF KnowsAsset, AssetGuard, rows, t
<1>10. KnowsCustody(q)' /\ KnowsClear(q)' /\ KnowsOthers(q)' /\ KnowsCosts(q)'
  BY <1>3, <1>7 DEF KnowsCustody, KnowsClear, KnowsOthers, KnowsCosts, Closing, TakesLast, t
<1> QED
  BY <1>5, <1>6, <1>8, <1>9, <1>10 DEF RequestsKept, Knows

LEMMA LockLastKeeps ==
  ASSUME NEW q \in Requests, Inv, LockLast(q)
  PROVE  RequestsKept(q)
<1> DEFINE o == tx[q]
           t == tx'[q]
           r == LastLock(o.call, o.on)
<1>0. RequestsTyped /\ LockOrder /\ Knows(q)
  BY DEF Inv
<1>1. /\ o.step = "last" /\ o \in Transaction /\ o.on \in Assets
      /\ o.call \in TakesLast /\ OnCourse(q) /\ KnowsAsset(q)
  BY <1>0 DEF LockLast, RequestsTyped, Knows, Busy, OnCourse
<1>2. r \in LastRows /\ r \in Rows /\ r \notin Assets
  BY <1>1, RowsAreLockable DEF LastLock, LastRows
<1>3. t = [o EXCEPT !.step = "commit"]
  BY <1>0 DEF LockLast, RequestsTyped
<1>4. /\ t \in Transaction /\ t.call = o.call /\ t.row = o.row /\ t.on = o.on
      /\ t.sawAsset = o.sawAsset /\ t.step = "commit"
  BY <1>1, <1>3 DEF Transaction, Steps
<1>5. /\ Locks(q, r) /\ Moves(q) /\ UNCHANGED rows
      /\ o.call = "return_asset" => custody[o.on]
  BY <1>0, <1>3, <1>4 DEF LockLast, Locks, Moves, RequestsTyped
<1>6. lock[o.on] = q /\ HoldsAsset(q)
  BY <1>1 DEF KnowsAsset, HoldsAsset, TakesLast, RowOnly
<1> HIDE DEF o, t, r
<1>7. /\ OthersFramed(q) /\ RequestsTyped' /\ lock'[r] = q
      /\ \A s \in Rows : s # r => lock'[s] = lock[s]
  BY <1>0, <1>2, <1>5, LockTaken
<1>8. LockOrder'
  <2>1. \A s \in Assets \cup LastRows : lock'[s] = lock[s] \/ lock'[s] = q
    BY <1>7, RowsAreLockable
  <2> QED
    BY <1>0, <1>4, <1>7, <2>1, LockOrderStays DEF OthersFramed, t
<1>9. o.call \notin RowCalls \cup AcquisitionCalls \cup Closing \cup RowOnly
      /\ o.call # "complete_disposal"
  BY <1>1 DEF TakesLast, RowCalls, TransferCalls, OrderCalls, DisposalCalls, AcquisitionCalls,
              Closing, RowOnly
<1>10. OnCourse(q)' /\ KnowsRow(q)' /\ KnowsAcquisition(q)'
  BY <1>1, <1>4, <1>9 DEF OnCourse, KnowsRow, KnowsAcquisition, o, t
<1>11. KnowsAsset(q)'
  <2>1. lock'[o.on] = lock[o.on]
    BY <1>1, <1>2, <1>7, RowsAreLockable
  <2> QED
    BY <1>1, <1>4, <1>5, <1>6, <2>1 DEF KnowsAsset, AssetGuard, rows, o, t
<1>12. KnowsCustody(q)' /\ KnowsClear(q)' /\ KnowsOthers(q)' /\ KnowsCosts(q)'
  BY <1>4, <1>5, <1>9 DEF KnowsCustody, KnowsClear, KnowsOthers, KnowsCosts, Closing, rows, o, t
<1> QED
  BY <1>7, <1>8, <1>10, <1>11, <1>12 DEF RequestsKept, Knows

\* who waits for a second lock waits for the asset's
LEMMA SecondIsAsset ==
  ASSUME NEW q \in Requests, Knows(q), tx[q].step = "asset"
  PROVE  /\ SecondLock(tx[q].call, tx[q].row, tx[q].on) = tx[q].on
         /\ tx[q].row \in Rows \ (Assets \cup LastRows) /\ tx[q].on \in Assets
         /\ tx[q].call \in (RowCalls \cup AcquisitionCalls) \ RowOnly
<1>1. OnCourse(q) /\ KnowsRow(q) /\ KnowsAcquisition(q)
  BY DEF Knows, Busy
<1>2. tx[q].call \in (RowCalls \cup AcquisitionCalls) \ RowOnly /\ tx[q].on \in Assets
  BY <1>1 DEF OnCourse, Calls, RowCalls
<1>3. tx[q].row \in Rows \ (Assets \cup LastRows)
  BY <1>1, <1>2, RowsAreLockable DEF KnowsRow, KnowsAcquisition
<1> QED
  BY <1>2, <1>3 DEF SecondLock, FirstLock

LEMMA LockAssetKeeps ==
  ASSUME NEW q \in Requests, Inv, LockAsset(q)
  PROVE  RequestsKept(q)
<1> DEFINE o == tx[q]
           t == tx'[q]
<1>0. /\ RequestsTyped /\ LockOrder /\ Knows(q)
      /\ asset \in [Assets -> Lifecycle!AssetRow]
  BY RowsInShape DEF Inv
<1>1. o.step = "asset" /\ o \in Transaction
  BY <1>0 DEF LockAsset, RequestsTyped
<1>2. /\ SecondLock(o.call, o.row, o.on) = o.on
      /\ o.row \in Rows \ (Assets \cup LastRows) /\ o.on \in Assets
      /\ o.call \in (RowCalls \cup AcquisitionCalls) \ RowOnly
  BY <1>0, <1>1, SecondIsAsset
<1>3. t = [o EXCEPT !.sawAsset = asset[o.on], !.step = Reads(o.call)]
  BY <1>0 DEF LockAsset, RequestsTyped
<1>4. asset[o.on] \in Lifecycle!AssetRow /\ Reads(o.call) \in Steps \ {"idle", "asset", "last"}
  BY <1>0, <1>2 DEF Reads, Steps
<1>5. /\ t \in Transaction /\ t.call = o.call /\ t.row = o.row /\ t.on = o.on
      /\ t.sawRow = o.sawRow /\ t.sawAsset = asset[o.on] /\ t.step = Reads(o.call)
      /\ t.blocked = o.blocked
  BY <1>1, <1>3, <1>4 DEF Transaction
<1>6. /\ Locks(q, o.on) /\ Moves(q) /\ UNCHANGED rows
      /\ asset[o.on].status \in AssetGuard(o.call)
  BY <1>0, <1>2, <1>3, <1>5 DEF LockAsset, Locks, Moves, RequestsTyped
<1>7. OnCourse(q) /\ KnowsRow(q) /\ KnowsAcquisition(q)
  BY <1>0, <1>1 DEF Knows, Busy
<1> HIDE DEF t, o
<1>8. /\ OthersFramed(q) /\ RequestsTyped' /\ lock'[o.on] = q
      /\ \A s \in Rows : s # o.on => lock'[s] = lock[s]
  <2>1. PICK a \in Rows : a = o.on
    BY <1>2, RowsAreLockable
  <2> QED
    BY <1>0, <1>6, <2>1, LockTaken
<1>9. LockOrder'
  <2>1. \A b \in Assets : lock'[b] = lock[b] \/ lock'[b] = q
    BY <1>8, RowsAreLockable
  <2>2. \A s \in LastRows : lock'[s] = lock[s] /\ lock[s] # q
    BY <1>0, <1>1, <1>2, <1>8, RowsAreLockable, NoLastRow DEF o
  <2> QED
    BY <1>0, <1>4, <1>5, <1>8, <2>1, <2>2, LockOrderStays DEF OthersFramed, t
<1>10. lock'[o.row] = lock[o.row]
  BY <1>2, <1>8
<1>11. OnCourse(q)'
  BY <1>2, <1>5, <1>7
     DEF OnCourse, Reads, RowCalls, TransferCalls, OrderCalls, DisposalCalls, AssetCalls,
         AcquisitionCalls, Closing, t, o
<1>12. KnowsRow(q)'
  BY <1>5, <1>6, <1>7, <1>10 DEF KnowsRow, Row, rows, t, o
<1>13. KnowsAcquisition(q)'
  BY <1>5, <1>6, <1>7, <1>10 DEF KnowsAcquisition, rows, t, o
<1>14. KnowsAsset(q)'
  BY <1>5, <1>6, <1>8 DEF KnowsAsset, AssetGuard, rows, t, o
<1>15. KnowsCustody(q)' /\ KnowsClear(q)' /\ KnowsOthers(q)' /\ KnowsCosts(q)'
  <2>1. t.call # "return_asset"
    BY <1>2, <1>5 DEF RowCalls, TransferCalls, OrderCalls, DisposalCalls, AcquisitionCalls
  <2> QED
    BY <1>5, <2>1 DEF KnowsCustody, KnowsClear, KnowsOthers, KnowsCosts, Reads, Closing, t, o
<1> QED
  BY <1>8, <1>9, <1>11, <1>12, <1>13, <1>14, <1>15 DEF RequestsKept, Knows

LEMMA ReadKeepsLocked ==
  ASSUME NEW q \in Requests, Inv, UNCHANGED <<rows, lock>>, Moves(q), HoldsAsset(q),
         tx'[q].call = tx[q].call, tx'[q].row = tx[q].row, tx'[q].on = tx[q].on,
         tx'[q].sawRow = tx[q].sawRow, tx'[q].sawAsset = tx[q].sawAsset,
         tx[q].step # "commit", tx'[q].step \notin {"idle", "asset"}
  PROVE  /\ OthersFramed(q) /\ RequestsTyped' /\ LockOrder'
         /\ KnowsRow(q)' /\ KnowsAcquisition(q)' /\ KnowsAsset(q)'
<1>1. /\ RequestsTyped /\ LockOrder /\ KnowsRow(q) /\ KnowsAcquisition(q)
      /\ KnowsAsset(q)
  BY DEF Inv, Knows, Busy, HoldsAsset
<1>2. OthersFramed(q) /\ RequestsTyped' /\ LockOrder'
  BY <1>1, ReadKeeps
<1>3. KnowsRow(q)'
  BY <1>1 DEF KnowsRow, Row, rows
<1>4. KnowsAcquisition(q)' /\ KnowsAsset(q)'
  BY <1>1 DEF KnowsAcquisition, KnowsAsset, HoldsAsset, AssetGuard, rows
<1> QED
  BY <1>2, <1>3, <1>4

\* the three reads of _assert_no_open_operations, in their order
LEMMA ReadCustodyKeeps ==
  ASSUME NEW q \in Requests, Inv, ReadCustody(q)
  PROVE  RequestsKept(q)
<1> DEFINE o == tx[q]
           t == tx'[q]
<1>0. RequestsTyped /\ Knows(q) /\ custody \in [Assets -> BOOLEAN]
  BY RowsInShape DEF Inv
<1>1. /\ o.step = "read_custody" /\ o \in Transaction /\ OnCourse(q)
      /\ o.on \in Assets /\ o.call = "complete_disposal"
  BY <1>0 DEF ReadCustody, RequestsTyped, Knows, Busy, OnCourse
<1>2. t = [o EXCEPT !.blocked = custody[o.on], !.step = "read_transfers"]
  BY <1>0 DEF ReadCustody, RequestsTyped
<1>3. /\ t \in Transaction /\ t.call = o.call /\ t.row = o.row /\ t.on = o.on
      /\ t.sawRow = o.sawRow /\ t.sawAsset = o.sawAsset /\ t.step = "read_transfers"
      /\ t.blocked = custody[o.on]
  BY <1>0, <1>1, <1>2 DEF Transaction, Steps
<1>4. Moves(q) /\ UNCHANGED <<rows, lock>> /\ HoldsAsset(q)
  BY <1>0, <1>1, <1>2, <1>3 DEF ReadCustody, Moves, RequestsTyped, HoldsAsset, RowOnly
<1> HIDE DEF o, t
<1>5. /\ OthersFramed(q) /\ RequestsTyped' /\ LockOrder'
      /\ KnowsRow(q)' /\ KnowsAcquisition(q)' /\ KnowsAsset(q)'
  BY <1>1, <1>3, <1>4, ReadKeepsLocked DEF o, t
<1>6. OnCourse(q)'
  BY <1>1, <1>3 DEF OnCourse, o, t
<1>7. KnowsCustody(q)' /\ KnowsClear(q)' /\ KnowsOthers(q)' /\ KnowsCosts(q)'
  BY <1>1, <1>3, <1>4 DEF KnowsCustody, KnowsClear, KnowsOthers, KnowsCosts, rows, Closing, o, t
<1> QED
  BY <1>5, <1>6, <1>7 DEF RequestsKept, Knows

LEMMA ReadTransfersKeeps ==
  ASSUME NEW q \in Requests, Inv, ReadTransfers(q)
  PROVE  RequestsKept(q)
<1> DEFINE o == tx[q]
           t == tx'[q]
<1>0. RequestsTyped /\ Knows(q)
  BY DEF Inv
<1>1. /\ o.step = "read_transfers" /\ o \in Transaction /\ OnCourse(q) /\ KnowsClear(q)
      /\ o.on \in Assets /\ o.call = "complete_disposal"
  BY <1>0 DEF ReadTransfers, RequestsTyped, Knows, Busy, OnCourse
<1>2. t = [o EXCEPT !.blocked = @ \/ Lifecycle!HasOpenTransfer(o.on), !.step = "read_orders"]
  BY <1>0 DEF ReadTransfers, RequestsTyped
<1>3. /\ t \in Transaction /\ t.call = o.call /\ t.row = o.row /\ t.on = o.on
      /\ t.sawRow = o.sawRow /\ t.sawAsset = o.sawAsset /\ t.step = "read_orders"
      /\ t.blocked <=> o.blocked \/ Lifecycle!HasOpenTransfer(o.on)
  BY <1>0, <1>1, <1>2 DEF Transaction, Steps
<1>4. Moves(q) /\ UNCHANGED <<rows, lock>> /\ HoldsAsset(q)
  BY <1>0, <1>1, <1>2, <1>3 DEF ReadTransfers, Moves, RequestsTyped, HoldsAsset, RowOnly
<1> HIDE DEF o, t
<1>5. /\ OthersFramed(q) /\ RequestsTyped' /\ LockOrder'
      /\ KnowsRow(q)' /\ KnowsAcquisition(q)' /\ KnowsAsset(q)'
  BY <1>1, <1>3, <1>4, ReadKeepsLocked DEF o, t
<1>6. OnCourse(q)'
  BY <1>1, <1>3 DEF OnCourse, o, t
<1>7. KnowsClear(q)'
  BY <1>1, <1>3, <1>4 DEF KnowsClear, Lifecycle!HasOpenTransfer, rows, o, t
<1>8. KnowsCustody(q)' /\ KnowsOthers(q)' /\ KnowsCosts(q)'
  BY <1>1, <1>3 DEF KnowsCustody, KnowsOthers, KnowsCosts, Closing, o, t
<1> QED
  BY <1>5, <1>6, <1>7, <1>8 DEF RequestsKept, Knows

LEMMA ReadOrdersKeeps ==
  ASSUME NEW q \in Requests, Inv, ReadOrders(q)
  PROVE  RequestsKept(q)
<1> DEFINE o == tx[q]
           t == tx'[q]
           otherActive == \E v \in WorkOrders \ {o.row} : ActiveOn(v, o.on)
           blocked == IF o.call = "complete_disposal"
                        THEN o.blocked \/ Lifecycle!HasOpenOrder(o.on) ELSE otherActive
           total == IF o.call = "complete_work_order" THEN costs[o.row] ELSE 0
<1>0. RequestsTyped /\ Knows(q) /\ CostsTyped
  BY DEF Inv
<1>1. /\ o.step = "read_orders" /\ o \in Transaction /\ OnCourse(q) /\ KnowsClear(q)
      /\ KnowsRow(q) /\ o.on \in Assets /\ o.call \in Closing \cup {"complete_disposal"}
  BY <1>0 DEF ReadOrders, RequestsTyped, Knows, Busy, OnCourse
<1>2. o.call = "complete_work_order" => o.row \in WorkOrders
  BY <1>1 DEF KnowsRow, RowCalls, OrderCalls, TransferCalls, DisposalCalls, RowsOf
<1>3. blocked \in BOOLEAN /\ total \in Nat
  BY <1>0, <1>1, <1>2 DEF CostsTyped, Transaction
<1>4. t = [o EXCEPT !.blocked = blocked, !.total = total, !.step = "commit"]
  BY <1>0 DEF ReadOrders, RequestsTyped, ActiveOn
<1> HIDE DEF blocked, total
<1>5. /\ t \in Transaction /\ t.call = o.call /\ t.row = o.row /\ t.on = o.on
      /\ t.sawRow = o.sawRow /\ t.sawAsset = o.sawAsset /\ t.step = "commit"
      /\ t.blocked = blocked /\ t.total = total
  BY <1>1, <1>3, <1>4 DEF Transaction, Steps
<1>6. Moves(q) /\ UNCHANGED <<rows, lock>> /\ HoldsAsset(q)
  BY <1>0, <1>1, <1>5 DEF ReadOrders, Moves, RequestsTyped, HoldsAsset, RowOnly, Closing
<1> HIDE DEF o, t
<1>7. /\ OthersFramed(q) /\ RequestsTyped' /\ LockOrder'
      /\ KnowsRow(q)' /\ KnowsAcquisition(q)' /\ KnowsAsset(q)'
  BY <1>1, <1>5, <1>6, ReadKeepsLocked DEF o, t
<1>8. OnCourse(q)'
  BY <1>1, <1>5 DEF OnCourse, o, t
<1>9. KnowsClear(q)'
  BY <1>1, <1>5, <1>6
     DEF KnowsClear, Lifecycle!HasOpenTransfer, Lifecycle!HasOpenOrder, rows, Closing,
         blocked, o, t
<1>10. KnowsOthers(q)'
  BY <1>1, <1>5, <1>6 DEF KnowsOthers, ActiveOn, rows, Closing, blocked, o, t
<1>11. KnowsCustody(q)' /\ KnowsCosts(q)'
  BY <1>1, <1>5, <1>6 DEF KnowsCustody, KnowsCosts, rows, Closing, total, o, t
<1> QED
  BY <1>7, <1>8, <1>9, <1>10, <1>11 DEF RequestsKept, Knows

\* none of these steps touches a committed row
LEMMA QuietSteps ==
  ASSUME NEW q \in Requests, Inv,
         \/ \E call \in Calls : \/ \E r \in Rows : LockRow(q, call, r)
                                \/ \E a \in Assets : LockAssetFirst(q, call, a)
                                \/ \E a \in Assets : LockAcquisition(q, call, a)
         \/ LockLast(q) \/ LockAsset(q) \/ RejectAsset(q) \/ Rollback(q)
         \/ ReadCustody(q) \/ ReadTransfers(q) \/ ReadOrders(q)
  PROVE  RequestsKept(q) /\ UNCHANGED rows
<1>1. UNCHANGED rows
  BY DEF LockRow, LockAssetFirst, LockAcquisition, LockLast, LockAsset, RejectAsset, Rollback,
         ReadCustody, ReadTransfers, ReadOrders
<1>2. ASSUME RejectAsset(q) \/ Rollback(q) PROVE RequestsKept(q)
  BY <1>2, EndKeeps DEF RejectAsset, Rollback, Inv
<1> QED
  BY <1>1, <1>2, LockRowKeeps, LockAssetFirstKeeps, LockAcquisitionKeeps, LockLastKeeps, LockAssetKeeps,
     ReadCustodyKeeps, ReadTransfersKeeps, ReadOrdersKeeps

-----------------------------------------------------------------------------
(* Commits: each is one step of the lifecycle, under locks *)

LifecycleStep == [Lifecycle!Next]_Lifecycle!vars

\* What a commit of q, or of the master data, does to the committed rows.
RowsMove(q) == LifecycleStep /\ RowsFramed(q) /\ CostsTyped' /\ RecordedWhenClosed'

\* What a request knows when it commits.
LEMMA AtCommit ==
  ASSUME NEW q \in Requests, Inv, tx[q].step = "commit"
  PROVE  /\ KnowsRow(q) /\ KnowsAcquisition(q) /\ KnowsCustody(q) /\ KnowsClear(q)
         /\ KnowsOthers(q) /\ KnowsCosts(q)
         /\ tx[q].on \in Assets /\ asset[tx[q].on] \in Lifecycle!AssetRow
         /\ tx[q].call \notin RowOnly =>
              /\ lock[tx[q].on] = q /\ tx[q].sawAsset = asset[tx[q].on]
              /\ asset[tx[q].on].status \in AssetGuard(tx[q].call)
<1>1. Knows(q) /\ asset \in [Assets -> Lifecycle!AssetRow]
  BY RowsInShape DEF Inv
<1> QED
  BY <1>1 DEF Knows, Busy, OnCourse, KnowsAsset, HoldsAsset

LEMMA CostsStill ==
  ASSUME CostsTyped, RecordedWhenClosed, UNCHANGED <<order, costs, recorded>>
  PROVE  CostsTyped' /\ RecordedWhenClosed'
BY DEF CostsTyped, RecordedWhenClosed

\* a write of one asset's row
LEMMA AssetWrite ==
  ASSUME NEW q, NEW a \in Assets, L!Shape, lock[a] = q,
         \A b \in Assets : b # a => asset'[b] = asset[b] /\ custody'[b] = custody[b]
  PROVE  AssetsFramed(q)
BY DEF AssetsFramed

LEMMA CapitalizationMoves ==
  ASSUME NEW q \in Requests, Inv, CommitCapitalization(q)
  PROVE  RowsMove(q)
<1> DEFINE a == tx[q].on
<1>0. L!Shape /\ CostsTyped /\ RecordedWhenClosed
  BY DEF Inv
<1>1. tx[q].step = "commit" /\ tx[q].call = "capitalize_acquisition"
  BY DEF CommitCapitalization, Commits
<1>2. /\ a \in Assets /\ lock[a] = q /\ tx[q].sawAsset = asset[a]
      /\ asset[a].status \in Lifecycle!Uncapitalized
      /\ acquisition[a] = "DRAFT" /\ lock[AcquisitionRow(a)] = q
  BY <1>1, AtCommit DEF AssetGuard, RowOnly, DisposalCalls, KnowsAcquisition, AcquisitionCalls, From
<1>3. Lifecycle!CapitalizeAcquisition(a)
  BY <1>2 DEF CommitCapitalization, WriteAssetStatus, Lifecycle!CapitalizeAcquisition,
              Lifecycle!SetAssetStatus
<1>4. LifecycleStep
  BY <1>2, <1>3 DEF LifecycleStep, Lifecycle!Next, Lifecycle!ServiceNext, Lifecycle!AssetNext
<1>5. \A b \in Assets : b # a =>
        asset'[b] = asset[b] /\ custody'[b] = custody[b] /\ acquisition'[b] = acquisition[b]
  BY <1>0, RowsInShape DEF CommitCapitalization, WriteAssetStatus
<1>6. AssetsFramed(q) /\ AcquisitionsFramed(q)
  BY <1>0, <1>2, <1>5, AssetWrite DEF AcquisitionsFramed
<1>7. UNCHANGED <<transfer, order, disposal, costs, recorded>>
  BY DEF CommitCapitalization
<1> QED
  BY <1>0, <1>4, <1>6, <1>7, CostsStill, StillFramed DEF RowsMove, RowsFramed

LEMMA UpdateAcquisitionMoves ==
  ASSUME NEW q \in Requests, NEW s \in {"UNDATED", "DRAFT"}, Inv, CommitUpdateAcquisition(q, s)
  PROVE  RowsMove(q)
<1> DEFINE a == tx[q].on
<1>0. L!Shape /\ CostsTyped /\ RecordedWhenClosed
  BY DEF Inv
<1>1. tx[q].step = "commit" /\ tx[q].call = "update_acquisition"
  BY DEF CommitUpdateAcquisition, Commits
<1>2. a \in Assets /\ acquisition[a] \in {"UNDATED", "DRAFT"} /\ lock[AcquisitionRow(a)] = q
  BY <1>1, AtCommit DEF KnowsAcquisition, AcquisitionCalls, From
<1>3. Lifecycle!UpdateAcquisition(a, s)
  BY <1>2 DEF CommitUpdateAcquisition, Lifecycle!UpdateAcquisition
<1>4. LifecycleStep
  BY <1>2, <1>3 DEF LifecycleStep, Lifecycle!Next, Lifecycle!ServiceNext, Lifecycle!AssetNext,
                    Lifecycle!AcquisitionStatus
<1>5. \A b \in Assets : b # a => acquisition'[b] = acquisition[b]
  BY <1>0, RowsInShape DEF CommitUpdateAcquisition
<1>6. AcquisitionsFramed(q)
  BY <1>2, <1>5 DEF AcquisitionsFramed
<1>7. UNCHANGED <<asset, custody, transfer, order, disposal, costs, recorded>>
  BY DEF CommitUpdateAcquisition
<1> QED
  BY <1>0, <1>4, <1>6, <1>7, CostsStill, StillFramed DEF RowsMove, RowsFramed

LEMMA AssignMoves ==
  ASSUME NEW q \in Requests, NEW p \in Places, Inv, CommitAssign(q, p)
  PROVE  RowsMove(q)
<1> DEFINE a == tx[q].on
<1>0. L!Shape /\ CostsTyped /\ RecordedWhenClosed
  BY DEF Inv
<1>1. tx[q].step = "commit" /\ tx[q].call = "assign_asset"
  BY DEF CommitAssign, Commits
<1>2. /\ a \in Assets /\ lock[a] = q /\ tx[q].sawAsset = asset[a]
      /\ asset[a].status \in Lifecycle!Movable
  BY <1>1, AtCommit DEF AssetGuard, RowOnly, DisposalCalls
<1>3. Lifecycle!AssignAsset(a, p)
  BY <1>2 DEF CommitAssign, Lifecycle!AssignAsset
<1>4. LifecycleStep
  BY <1>2, <1>3 DEF LifecycleStep, Lifecycle!Next, Lifecycle!ServiceNext, Lifecycle!AssetNext
<1>5. \A b \in Assets : b # a => asset'[b] = asset[b] /\ custody'[b] = custody[b]
  BY <1>0, RowsInShape DEF CommitAssign
<1>6. AssetsFramed(q)
  BY <1>0, <1>2, <1>5, AssetWrite
<1>7. UNCHANGED <<acquisition, transfer, order, disposal, costs, recorded>>
  BY DEF CommitAssign
<1> QED
  BY <1>0, <1>4, <1>6, <1>7, CostsStill, StillFramed DEF RowsMove, RowsFramed

LEMMA ReturnMoves ==
  ASSUME NEW q \in Requests, Inv, CommitReturn(q)
  PROVE  RowsMove(q)
<1> DEFINE a == tx[q].on
<1>0. L!Shape /\ CostsTyped /\ RecordedWhenClosed
  BY DEF Inv
<1>1. tx[q].step = "commit" /\ tx[q].call = "return_asset"
  BY DEF CommitReturn, Commits
<1>2. a \in Assets /\ lock[a] = q /\ asset[a].status \in Lifecycle!Movable /\ custody[a]
  BY <1>1, AtCommit DEF AssetGuard, RowOnly, DisposalCalls, KnowsCustody
<1>3. Lifecycle!ReturnAsset(a)
  BY <1>2 DEF CommitReturn, Lifecycle!ReturnAsset
<1>4. LifecycleStep
  BY <1>2, <1>3 DEF LifecycleStep, Lifecycle!Next, Lifecycle!ServiceNext, Lifecycle!AssetNext
<1>5. \A b \in Assets : b # a => asset'[b] = asset[b] /\ custody'[b] = custody[b]
  BY <1>0, RowsInShape DEF CommitReturn
<1>6. AssetsFramed(q)
  BY <1>0, <1>2, <1>5, AssetWrite
<1>7. UNCHANGED <<acquisition, transfer, order, disposal, costs, recorded>>
  BY DEF CommitReturn
<1> QED
  BY <1>0, <1>4, <1>6, <1>7, CostsStill, StillFramed DEF RowsMove, RowsFramed

LEMMA RequestTransferMoves ==
  ASSUME NEW q \in Requests, NEW r \in Transfers, NEW to \in Places, Inv,
         CommitRequestTransfer(q, r, to)
  PROVE  RowsMove(q)
<1> DEFINE a == tx[q].on
<1>0. L!Shape /\ CostsTyped /\ RecordedWhenClosed
  BY DEF Inv
<1>1. tx[q].step = "commit" /\ tx[q].call = "request_transfer"
  BY DEF CommitRequestTransfer, Commits
<1>2. /\ a \in Assets /\ lock[a] = q /\ tx[q].sawAsset = asset[a]
      /\ asset[a].status \in Lifecycle!Movable
  BY <1>1, AtCommit DEF AssetGuard, RowOnly, DisposalCalls
<1>3. Lifecycle!RequestTransfer(r, a, to)
  BY <1>2 DEF CommitRequestTransfer, Lifecycle!RequestTransfer
<1>4. LifecycleStep
  BY <1>2, <1>3 DEF LifecycleStep, Lifecycle!Next, Lifecycle!ServiceNext, Lifecycle!TransferNext
<1>5. /\ transfer[r].status = "ABSENT" /\ transfer'[r].asset = a
      /\ \A t \in Transfers : t # r => transfer'[t] = transfer[t]
  BY <1>0, RowsInShape DEF CommitRequestTransfer
<1>6. TransfersFramed(q)
  BY <1>2, <1>5 DEF TransfersFramed, OpenTransferOn
<1>7. UNCHANGED <<asset, acquisition, custody, order, disposal, costs, recorded>>
  BY DEF CommitRequestTransfer
<1> QED
  BY <1>0, <1>4, <1>6, <1>7, CostsStill, StillFramed DEF RowsMove, RowsFramed

LEMMA TransferMoves ==
  ASSUME NEW q \in Requests, Inv, CommitTransfer(q)
  PROVE  RowsMove(q)
<1> DEFINE a == tx[q].on
           r == tx[q].row
<1>0. L!Shape /\ CostsTyped /\ RecordedWhenClosed
  BY DEF Inv
<1>1. tx[q].step = "commit" /\ tx[q].call \in TransferCalls
  BY DEF CommitTransfer, Commits
<1>2. /\ r \in Transfers /\ lock[r] = q /\ tx[q].sawRow = transfer[r]
      /\ transfer[r].status \in From(tx[q].call) /\ transfer[r].asset = a /\ a \in Assets
  BY <1>1, AtCommit, RowsOfTables DEF KnowsRow, RowCalls, Row
<1>3. tx[q].call = "complete_transfer" =>
        /\ lock[a] = q /\ tx[q].sawAsset = asset[a]
        /\ asset[a].status \in Lifecycle!Movable
  BY <1>1, AtCommit DEF AssetGuard, RowOnly, DisposalCalls
<1>4. transfer' = [transfer EXCEPT ![r] = [transfer[r] EXCEPT !.status = To(tx[q].call)]]
  BY <1>2 DEF CommitTransfer, Advanced
<1>5. LifecycleStep
  <2>1. CASE tx[q].call = "complete_transfer"
    <3>1. Lifecycle!CompleteTransfer(r)
      BY <1>2, <1>3, <1>4, <2>1 DEF CommitTransfer, Lifecycle!CompleteTransfer, From, To
    <3> QED
      BY <1>2, <3>1 DEF LifecycleStep, Lifecycle!Next, Lifecycle!ServiceNext, Lifecycle!TransferNext
  <2>2. CASE tx[q].call # "complete_transfer"
    <3>1. /\ transfer[r].status = "REQUESTED"
          /\ UNCHANGED <<asset, acquisition, custody, order, disposal>>
      BY <1>1, <1>2, <2>2 DEF CommitTransfer, From, TransferCalls
    <3>2. To(tx[q].call) \in {"APPROVED", "REJECTED", "CANCELLED"}
      BY <1>1, <2>2 DEF To, TransferCalls
    <3>3. Lifecycle!ApproveTransfer(r) \/ Lifecycle!RejectTransfer(r) \/ Lifecycle!CancelTransfer(r)
      BY <1>4, <3>1, <3>2
         DEF Lifecycle!ApproveTransfer, Lifecycle!RejectTransfer, Lifecycle!CancelTransfer,
             Lifecycle!TransitionTransfer
    <3> QED
      BY <1>2, <3>3 DEF LifecycleStep, Lifecycle!Next, Lifecycle!ServiceNext, Lifecycle!TransferNext
  <2> QED
    BY <2>1, <2>2
<1>6. /\ transfer[r].status \in Lifecycle!OpenTransferStates /\ transfer'[r].asset = a
      /\ \A t \in Transfers : t # r => transfer'[t] = transfer[t]
  <2>1. transfer[r].status \in Lifecycle!OpenTransferStates
    BY <1>1, <1>2 DEF From, TransferCalls, Lifecycle!OpenTransferStates
  <2> QED
    BY <1>0, <1>2, <1>4, <2>1, RowsInShape DEF Lifecycle!TransferRow
<1>7. TransfersFramed(q)
  BY <1>2, <1>6 DEF TransfersFramed, OpenTransferOn
<1>8. AssetsFramed(q)
  <2>1. CASE tx[q].call = "complete_transfer"
    <3>1. \A b \in Assets : b # a => asset'[b] = asset[b] /\ custody'[b] = custody[b]
      BY <1>0, <2>1, RowsInShape DEF CommitTransfer
    <3> QED
      BY <1>0, <1>2, <1>3, <2>1, <3>1, AssetWrite
  <2>2. CASE tx[q].call # "complete_transfer"
    BY <2>2, StillFramed DEF CommitTransfer
  <2> QED
    BY <2>1, <2>2
<1>9. UNCHANGED <<acquisition, custody, order, disposal, costs, recorded>>
  BY DEF CommitTransfer
<1> QED
  BY <1>0, <1>5, <1>7, <1>8, <1>9, CostsStill, StillFramed DEF RowsMove, RowsFramed

LEMMA CreateWorkOrderMoves ==
  ASSUME NEW q \in Requests, NEW w \in WorkOrders, Inv, CommitCreateWorkOrder(q, w)
  PROVE  RowsMove(q)
<1> DEFINE a == tx[q].on
<1>0. L!Shape /\ CostsTyped /\ RecordedWhenClosed
  BY DEF Inv
<1>1. tx[q].step = "commit" /\ tx[q].call = "create_work_order"
  BY DEF CommitCreateWorkOrder, Commits
<1>2. a \in Assets /\ lock[a] = q /\ asset[a].status \in Lifecycle!Movable
  BY <1>1, AtCommit DEF AssetGuard, RowOnly, DisposalCalls
<1>3. Lifecycle!CreateWorkOrder(w, a)
  BY <1>2 DEF CommitCreateWorkOrder, Lifecycle!CreateWorkOrder
<1>4. LifecycleStep
  BY <1>2, <1>3 DEF LifecycleStep, Lifecycle!Next, Lifecycle!ServiceNext, Lifecycle!WorkOrderNext
<1>5. /\ order[w].status = "ABSENT" /\ order'[w] = [status |-> "OPEN", asset |-> a]
      /\ \A v \in WorkOrders : v # w => order'[v] = order[v]
  BY <1>0, RowsInShape DEF CommitCreateWorkOrder
<1>6. OrdersFramed(q)
  BY <1>2, <1>5 DEF OrdersFramed, OpenOrderOn, ActiveOn, Lifecycle!ActiveOrderStates
<1>7. UNCHANGED <<asset, acquisition, custody, transfer, disposal, costs, recorded>>
  BY DEF CommitCreateWorkOrder
<1>8. CostsTyped' /\ RecordedWhenClosed'
  BY <1>0, <1>5, <1>7 DEF CostsTyped, RecordedWhenClosed
<1> QED
  BY <1>4, <1>6, <1>7, <1>8, StillFramed DEF RowsMove, RowsFramed

LEMMA CostMoves ==
  ASSUME NEW q \in Requests, Inv, CommitCost(q)
  PROVE  RowsMove(q)
<1> DEFINE w == tx[q].row
<1>0. CostsTyped /\ RecordedWhenClosed
  BY DEF Inv
<1>1. tx[q].step = "commit" /\ tx[q].call = "create_maintenance_cost"
  BY DEF CommitCost, Commits
<1>2. w \in WorkOrders /\ lock[w] = q /\ Row(w).status \in From("create_maintenance_cost")
  BY <1>1, AtCommit, RowsOfTables DEF KnowsRow, RowCalls, OrderCalls
<1>3. order[w].status # "COMPLETED"
  BY <1>2, TablesAreDisjoint, FromOpen DEF Row, RowCalls, OrderCalls
<1>4. /\ costs' = [costs EXCEPT ![w] = @ + 1]
      /\ UNCHANGED <<asset, acquisition, custody, transfer, order, disposal, recorded>>
  BY DEF CommitCost
<1>5. LifecycleStep
  BY <1>4 DEF LifecycleStep, Lifecycle!vars, Lifecycle!rows
<1>6. CostsTyped' /\ CostsFramed(q)
  BY <1>0, <1>2, <1>4 DEF CostsTyped, CostsFramed
<1>7. RecordedWhenClosed'
  BY <1>0, <1>2, <1>3, <1>4 DEF RecordedWhenClosed, CostsTyped
<1> QED
  BY <1>4, <1>5, <1>6, <1>7, StillFramed DEF RowsMove, RowsFramed

\* what the close of a work order read about the other orders is what the lifecycle reads
LEMMA OthersReadRight ==
  ASSUME NEW q \in Requests, KnowsOthers(q), tx[q].call \in Closing, tx[q].step = "commit"
  PROVE  tx[q].blocked <=>
           {v \in WorkOrders \ {tx[q].row} :
              order[v].asset = tx[q].on /\ order[v].status \in Lifecycle!ActiveOrderStates} # {}
BY DEF KnowsOthers, ActiveOn

LEMMA WorkOrderMoves ==
  ASSUME NEW q \in Requests, Inv, CommitWorkOrder(q)
  PROVE  RowsMove(q)
<1> DEFINE a == tx[q].on
           w == tx[q].row
           call == tx[q].call
<1>0. L!Shape /\ CostsTyped /\ RecordedWhenClosed
  BY DEF Inv
<1>1. /\ tx[q].step = "commit"
      /\ call \in {"assign_work_order", "start_work_order"} \cup Closing
  BY DEF CommitWorkOrder, Commits, OrderCalls, Closing
<1>2. /\ w \in WorkOrders /\ lock[w] = q /\ tx[q].sawRow = order[w]
      /\ order[w].status \in From(call) /\ order[w].asset = a
  <2>1. w \in WorkOrders /\ w \notin Transfers /\ KnowsRow(q) /\ call \in RowCalls
    BY <1>1, AtCommit, RowsOfTables, TablesAreDisjoint DEF KnowsRow, RowCalls, OrderCalls, Closing
  <2> QED
    BY <2>1 DEF KnowsRow, Row
<1>3. /\ a \in Assets /\ lock[a] = q /\ tx[q].sawAsset = asset[a]
      /\ asset[a].status \in Lifecycle!Movable
  BY <1>1, AtCommit DEF AssetGuard, RowOnly, DisposalCalls, Closing
<1>4. /\ order' = [order EXCEPT ![w] = [order[w] EXCEPT !.status = To(call)]]
      /\ UNCHANGED <<acquisition, custody, transfer, disposal, costs>>
  BY <1>2 DEF CommitWorkOrder, Advanced
<1>5. KnowsOthers(q) /\ KnowsCosts(q)
  BY <1>1, AtCommit
<1>6. LifecycleStep
  <2>1. CASE call = "assign_work_order"
    <3>1. UNCHANGED asset
      BY <2>1 DEF CommitWorkOrder
    <3>2. Lifecycle!AssignWorkOrder(w)
      BY <1>2, <1>3, <1>4, <2>1, <3>1 DEF Lifecycle!AssignWorkOrder, From, To
    <3> QED
      BY <1>2, <3>2 DEF LifecycleStep, Lifecycle!Next, Lifecycle!ServiceNext, Lifecycle!WorkOrderNext
  <2>2. CASE call = "start_work_order"
    <3>1. IF asset[a].status = "ACTIVE" THEN WriteAssetStatus(q, "IN_MAINTENANCE")
                                        ELSE UNCHANGED asset
      BY <1>3, <2>2 DEF CommitWorkOrder
    <3>2. Lifecycle!StartWorkOrder(w)
      BY <1>2, <1>3, <1>4, <2>2, <3>1
         DEF Lifecycle!StartWorkOrder, Lifecycle!SetAssetStatus, WriteAssetStatus, From, To
    <3> QED
      BY <1>2, <3>2 DEF LifecycleStep, Lifecycle!Next, Lifecycle!ServiceNext, Lifecycle!WorkOrderNext
  <2>3. CASE call \in Closing
    <3>1. IF asset[a].status = "IN_MAINTENANCE" /\ ~tx[q].blocked
            THEN WriteAssetStatus(q, "ACTIVE") ELSE UNCHANGED asset
      BY <1>3, <2>3 DEF CommitWorkOrder, Closing
    <3>2. Lifecycle!RestoreAssetIfNoActiveWork(w)
      BY <1>1, <1>2, <1>3, <1>5, <2>3, <3>1, OthersReadRight
         DEF Lifecycle!RestoreAssetIfNoActiveWork, Lifecycle!SetAssetStatus, WriteAssetStatus
    <3>3. Lifecycle!CompleteWorkOrder(w) \/ Lifecycle!CancelWorkOrder(w)
      BY <1>2, <1>3, <1>4, <2>3, <3>2
         DEF Lifecycle!CompleteWorkOrder, Lifecycle!CancelWorkOrder, Lifecycle!OpenOrderStates,
             Lifecycle!ActiveOrderStates, Closing, From, To
    <3> QED
      BY <1>2, <3>3 DEF LifecycleStep, Lifecycle!Next, Lifecycle!ServiceNext, Lifecycle!WorkOrderNext
  <2> QED
    BY <1>1, <2>1, <2>2, <2>3
<1>7. /\ order[w].status \in Lifecycle!OpenOrderStates
      /\ order'[w].asset = a /\ order'[w].status = To(call)
      /\ \A v \in WorkOrders : v # w => order'[v] = order[v]
  <2>1. order[w].status \in Lifecycle!OpenOrderStates
    BY <1>1, <1>2 DEF From, Closing, Lifecycle!OpenOrderStates, Lifecycle!ActiveOrderStates
  <2> QED
    BY <1>0, <1>2, <1>4, <2>1, RowsInShape DEF Lifecycle!WorkOrderRow
<1>8. OrdersFramed(q)
  BY <1>2, <1>3, <1>7 DEF OrdersFramed, OpenOrderOn, ActiveOn
<1>9. AssetsFramed(q)
  <2>1. \A b \in Assets : b # a => asset'[b] = asset[b] /\ custody'[b] = custody[b]
    BY <1>0, <1>1, <1>4, RowsInShape DEF CommitWorkOrder, WriteAssetStatus
  <2> QED
    BY <1>0, <1>3, <2>1, AssetWrite
<1>10. CostsTyped' /\ RecordedWhenClosed'
  <2>1. recorded[w] = None
    BY <1>0, <1>2, <1>7
       DEF RecordedWhenClosed, Lifecycle!OpenOrderStates, Lifecycle!ActiveOrderStates
  <2>2. CASE call = "complete_work_order"
    <3>1. recorded' = [recorded EXCEPT ![w] = costs[w]] /\ To(call) = "COMPLETED"
      BY <1>1, <1>5, <2>2 DEF CommitWorkOrder, KnowsCosts, To
    <3> QED
      BY <1>0, <1>2, <1>4, <1>7, <3>1 DEF CostsTyped, RecordedWhenClosed
  <2>3. CASE call # "complete_work_order"
    <3>1. UNCHANGED recorded
      BY <2>3 DEF CommitWorkOrder
    <3> QED
      BY <1>0, <1>2, <1>4, <1>7, <2>1, <3>1 DEF CostsTyped, RecordedWhenClosed
  <2> QED
    BY <2>2, <2>3
<1> QED
  BY <1>4, <1>6, <1>8, <1>9, <1>10, StillFramed DEF RowsMove, RowsFramed

LEMMA CreateDisposalMoves ==
  ASSUME NEW q \in Requests, NEW d \in Disposals, NEW u \in Users, Inv,
         CommitCreateDisposal(q, d, u)
  PROVE  RowsMove(q)
<1> DEFINE a == tx[q].on
<1>0. L!Shape /\ CostsTyped /\ RecordedWhenClosed
  BY DEF Inv
<1>1. tx[q].step = "commit" /\ tx[q].call = "create_disposal"
  BY DEF CommitCreateDisposal, Commits
<1>2. a \in Assets /\ asset[a].status = "ACTIVE"
  BY <1>1, AtCommit DEF AssetGuard, RowOnly, DisposalCalls
<1>3. Lifecycle!CreateDisposal(d, a, u)
  BY <1>2 DEF CommitCreateDisposal, Lifecycle!CreateDisposal
<1>4. LifecycleStep
  BY <1>2, <1>3 DEF LifecycleStep, Lifecycle!Next, Lifecycle!ServiceNext, Lifecycle!DisposalNext
<1>5. DisposalsFramed(q)
  BY <1>0, RowsInShape DEF CommitCreateDisposal, DisposalsFramed
<1>6. UNCHANGED <<asset, acquisition, custody, transfer, order, costs, recorded>>
  BY DEF CommitCreateDisposal
<1> QED
  BY <1>0, <1>4, <1>5, <1>6, CostsStill, StillFramed DEF RowsMove, RowsFramed

\* what a service that locks a disposal's row knows of it
LEMMA DisposalAtCommit ==
  ASSUME NEW q \in Requests, Inv, tx[q].step = "commit", tx[q].call \in DisposalCalls
  PROVE  /\ tx[q].row \in Disposals /\ lock[tx[q].row] = q
         /\ tx[q].sawRow = disposal[tx[q].row]
         /\ disposal[tx[q].row].status \in From(tx[q].call)
         /\ disposal[tx[q].row].asset = tx[q].on /\ tx[q].on \in Assets
<1>1. /\ tx[q].row \in Disposals /\ tx[q].row \notin Transfers \cup WorkOrders
      /\ KnowsRow(q) /\ tx[q].call \in RowCalls
  BY AtCommit, RowsOfTables, TablesAreDisjoint DEF KnowsRow, RowCalls
<1> QED
  BY <1>1, AtCommit DEF KnowsRow, Row

LEMMA ApproveDisposalMoves ==
  ASSUME NEW q \in Requests, NEW u \in Users, Inv, CommitApproveDisposal(q, u)
  PROVE  RowsMove(q)
<1> DEFINE a == tx[q].on
           d == tx[q].row
<1>0. L!Shape /\ CostsTyped /\ RecordedWhenClosed
  BY DEF Inv
<1>1. tx[q].step = "commit" /\ tx[q].call = "approve_disposal" /\ tx[q].call \in DisposalCalls
  BY DEF CommitApproveDisposal, Commits, DisposalCalls
<1>2. /\ d \in Disposals /\ lock[d] = q /\ tx[q].sawRow = disposal[d]
      /\ disposal[d].status = "PENDING_APPROVAL" /\ disposal[d].asset = a
  BY <1>1, DisposalAtCommit DEF From
<1>3. asset[a].status = "ACTIVE"
  BY <1>1, AtCommit DEF AssetGuard, RowOnly, DisposalCalls
<1>4. disposal' = [disposal EXCEPT
         ![d] = [[disposal[d] EXCEPT !.status = "APPROVED"] EXCEPT !.approver = u]]
  BY <1>1, <1>2 DEF CommitApproveDisposal, Advanced, To
<1>5. UNCHANGED <<asset, acquisition, custody, transfer, order, costs, recorded>>
  BY DEF CommitApproveDisposal
<1>6. u # disposal[d].requester
  BY <1>2 DEF CommitApproveDisposal
<1>7. disposal' = [disposal EXCEPT ![d].status = "APPROVED", ![d].approver = u]
  BY <1>0, <1>2, <1>4, RowsInShape
<1>8. Lifecycle!ApproveDisposal(d, u)
  BY <1>2, <1>3, <1>5, <1>6, <1>7 DEF Lifecycle!ApproveDisposal
<1>9. LifecycleStep
  BY <1>2, <1>8 DEF LifecycleStep, Lifecycle!Next, Lifecycle!ServiceNext, Lifecycle!DisposalNext
<1>10. DisposalsFramed(q)
  BY <1>0, <1>2, <1>4, RowsInShape DEF DisposalsFramed
<1> QED
  BY <1>0, <1>5, <1>9, <1>10, CostsStill, StillFramed DEF RowsMove, RowsFramed

LEMMA DisposalMoves ==
  ASSUME NEW q \in Requests, Inv, CommitDisposal(q)
  PROVE  RowsMove(q)
<1> DEFINE a == tx[q].on
           d == tx[q].row
           call == tx[q].call
<1>0. L!Shape /\ CostsTyped /\ RecordedWhenClosed
  BY DEF Inv
<1>1. /\ tx[q].step = "commit" /\ call \in DisposalCalls
      /\ call \in {"submit_disposal", "reject_disposal", "cancel_disposal", "complete_disposal"}
  BY DEF CommitDisposal, Commits, DisposalCalls
<1>2. /\ d \in Disposals /\ lock[d] = q /\ tx[q].sawRow = disposal[d]
      /\ disposal[d].status \in From(call) /\ disposal[d].asset = a
  BY <1>1, DisposalAtCommit
<1>3. call \in {"submit_disposal", "complete_disposal"} =>
        /\ a \in Assets /\ lock[a] = q /\ tx[q].sawAsset = asset[a]
        /\ asset[a].status = "ACTIVE"
  BY <1>1, AtCommit DEF AssetGuard, RowOnly, DisposalCalls
<1>4. /\ disposal' = [disposal EXCEPT ![d] = [disposal[d] EXCEPT !.status = To(call)]]
      /\ UNCHANGED <<acquisition, custody, transfer, order, costs, recorded>>
  BY <1>2 DEF CommitDisposal, Advanced
<1>5. call # "complete_disposal" => UNCHANGED asset
  BY DEF CommitDisposal
<1>6. LifecycleStep
  <2>1. CASE call = "submit_disposal"
    <3>1. Lifecycle!SubmitDisposal(d)
      BY <1>2, <1>3, <1>4, <1>5, <2>1 DEF Lifecycle!SubmitDisposal, From, To
    <3> QED
      BY <1>2, <3>1 DEF LifecycleStep, Lifecycle!Next, Lifecycle!ServiceNext, Lifecycle!DisposalNext
  <2>2. CASE call = "reject_disposal"
    <3>1. Lifecycle!RejectDisposal(d)
      BY <1>2, <1>4, <1>5, <2>2 DEF Lifecycle!RejectDisposal, From, To
    <3> QED
      BY <1>2, <3>1 DEF LifecycleStep, Lifecycle!Next, Lifecycle!ServiceNext, Lifecycle!DisposalNext
  <2>3. CASE call = "cancel_disposal"
    <3>1. Lifecycle!CancelDisposal(d)
      BY <1>2, <1>4, <1>5, <2>3
         DEF Lifecycle!CancelDisposal, Lifecycle!OpenDisposalStates, From, To
    <3> QED
      BY <1>2, <3>1 DEF LifecycleStep, Lifecycle!Next, Lifecycle!ServiceNext, Lifecycle!DisposalNext
  <2>4. CASE call = "complete_disposal"
    <3>1. /\ disposal[d].approver # disposal[d].requester /\ ~tx[q].blocked
          /\ WriteAssetStatus(q, "DISPOSED")
      BY <1>2, <2>4 DEF CommitDisposal
    <3>2. Lifecycle!NoOpenOperations(a)
      BY <1>1, <2>4, <3>1, AtCommit DEF KnowsClear, Lifecycle!NoOpenOperations
    <3>3. Lifecycle!CompleteDisposal(d)
      BY <1>2, <1>3, <1>4, <2>4, <3>1, <3>2
         DEF Lifecycle!CompleteDisposal, Lifecycle!SetAssetStatus, WriteAssetStatus, From, To
    <3> QED
      BY <1>2, <3>3 DEF LifecycleStep, Lifecycle!Next, Lifecycle!ServiceNext, Lifecycle!DisposalNext
  <2> QED
    BY <1>1, <2>1, <2>2, <2>3, <2>4
<1>7. DisposalsFramed(q)
  BY <1>0, <1>2, <1>4, RowsInShape DEF DisposalsFramed
<1>8. AssetsFramed(q)
  <2>1. CASE call = "complete_disposal"
    <3>1. \A b \in Assets : b # a => asset'[b] = asset[b] /\ custody'[b] = custody[b]
      BY <1>0, <1>4, <2>1, RowsInShape DEF CommitDisposal, WriteAssetStatus
    <3> QED
      BY <1>0, <1>3, <2>1, <3>1, AssetWrite
  <2>2. CASE call # "complete_disposal"
    BY <1>4, <1>5, <2>2, StillFramed
  <2> QED
    BY <2>1, <2>2
<1> QED
  BY <1>0, <1>4, <1>6, <1>7, <1>8, CostsStill, StillFramed DEF RowsMove, RowsFramed

LEMMA CommitMoves ==
  ASSUME NEW q \in Requests, Inv, Commit(q)
  PROVE  RowsMove(q) /\ RequestsKept(q)
<1>1. RequestsKept(q)
  BY EndKeeps DEF Commit, Inv
<1> QED
  BY <1>1, CapitalizationMoves, UpdateAcquisitionMoves, AssignMoves, ReturnMoves, RequestTransferMoves, TransferMoves,
     CreateWorkOrderMoves, CostMoves, WorkOrderMoves, CreateDisposalMoves,
     ApproveDisposalMoves, DisposalMoves
     DEF Commit

\* the services that lock one row: nobody has the asset's lock
LEMMA MasterDataMoves ==
  ASSUME Inv, MasterData
  PROVE  RowsMove(None) /\ OthersFramed(None) /\ RequestsTyped' /\ LockOrder'
<1>0. L!Shape /\ CostsTyped /\ RecordedWhenClosed /\ RequestsTyped /\ LockOrder
  BY DEF Inv
<1>1. UNCHANGED <<costs, recorded, lock, tx>>
  BY DEF MasterData
<1>2. PICK a \in Assets :
        /\ lock[a] = None
        /\ \/ \E p \in Places : Lifecycle!CreateAsset(a, p) \/ Lifecycle!UpdateAsset(a, p)
           \/ \E s \in {"UNDATED", "DRAFT"} : Lifecycle!CreateAcquisition(a, s)
  BY DEF MasterData
<1>3. LifecycleStep
  BY <1>2 DEF LifecycleStep, Lifecycle!Next, Lifecycle!ServiceNext, Lifecycle!AssetNext, Lifecycle!AcquisitionStatus
<1>4. UNCHANGED <<custody, transfer, order, disposal>>
  BY <1>2 DEF Lifecycle!CreateAsset, Lifecycle!UpdateAsset, Lifecycle!CreateAcquisition
<1>5. \A b \in Assets : b # a => asset'[b] = asset[b] /\ custody'[b] = custody[b]
  BY <1>0, <1>2, <1>4, RowsInShape
     DEF Lifecycle!CreateAsset, Lifecycle!UpdateAsset, Lifecycle!CreateAcquisition
<1>6. AssetsFramed(None)
  BY <1>0, <1>2, <1>5, AssetWrite
<1>7. AcquisitionsFramed(None)
  BY <1>0, <1>2, RowsInShape
     DEF AcquisitionsFramed, Lifecycle!CreateAsset, Lifecycle!UpdateAsset,
         Lifecycle!CreateAcquisition
<1>8. OthersFramed(None) /\ RequestsTyped' /\ LockOrder'
  BY <1>0, <1>1 DEF OthersFramed, RequestsTyped, LockOrder
<1> QED
  BY <1>0, <1>1, <1>3, <1>4, <1>6, <1>7, <1>8, CostsStill, StillFramed DEF RowsMove, RowsFramed

-----------------------------------------------------------------------------
(* The inductive invariant *)

LEMMA InitInv == Init => Inv
<1> SUFFICES ASSUME Init PROVE Inv
  OBVIOUS
<1>1. L!Shape
  <2>1. L!Init
    BY SameInit DEF Init
  <2> QED
    BY <2>1, NoneIsNothing, LimitIsNat, L!InitShape
<1>2. RequestsTyped /\ CostsTyped
  BY IdleTyped DEF Init, RequestsTyped, CostsTyped
<1>3. \A q \in Requests : Knows(q)
  BY IdleTyped DEF Init, Knows, Busy
<1>4. LockOrder /\ RecordedWhenClosed
  BY RowsAreLockable DEF Init, LockOrder, RecordedWhenClosed
<1> QED
  BY <1>1, <1>2, <1>3, <1>4 DEF Inv

LEMMA NextInv == Inv /\ [Next]_vars => Inv' /\ LifecycleStep
<1> SUFFICES ASSUME Inv, [Next]_vars PROVE Inv' /\ LifecycleStep
  OBVIOUS
<1>1. ASSUME NEW q \in Requests, Step(q)
      PROVE  RowsMove(q) /\ RequestsKept(q)
  <2>1. CASE Commit(q)
    BY <2>1, CommitMoves
  <2>2. CASE ~Commit(q)
    <3>1. RequestsKept(q) /\ UNCHANGED rows
      BY <1>1, <2>2, QuietSteps DEF Step
    <3>2. LifecycleStep
      BY <3>1 DEF LifecycleStep, Lifecycle!vars, Lifecycle!rows, rows
    <3>3. CostsTyped' /\ RecordedWhenClosed'
      BY <3>1, CostsStill DEF Inv, rows
    <3> QED
      BY <3>1, <3>2, <3>3, StillFramed DEF RowsMove
  <2> QED
    BY <2>1, <2>2
<1>2. ASSUME NEW q, RowsMove(q), OthersFramed(q), RequestsTyped', LockOrder',
             q \in Requests => Knows(q)'
      PROVE  Inv' /\ LifecycleStep
  <2>1. L!Shape'
    BY <1>2, ShapeStays DEF Inv, RowsMove, LifecycleStep
  <2>2. \A p \in Requests : Knows(p)'
    BY <1>2, KnowsStays DEF Inv, RowsMove
  <2> QED
    BY <1>2, <2>1, <2>2 DEF Inv, RowsMove
<1>3. CASE \E q \in Requests : Step(q)
  BY <1>1, <1>2, <1>3 DEF RequestsKept
<1>4. CASE MasterData
  BY <1>2, <1>4, MasterDataMoves, NoneIsNothing
<1>5. CASE UNCHANGED vars
  <2>1. OthersFramed(None) /\ RequestsTyped' /\ LockOrder'
    BY <1>5 DEF vars, Inv, OthersFramed, RequestsTyped, LockOrder
  <2>2. RowsMove(None)
    BY <1>5, CostsStill, StillFramed
       DEF vars, rows, Inv, RowsMove, LifecycleStep, Lifecycle!vars, Lifecycle!rows
  <2> QED
    BY <1>2, <2>1, <2>2, NoneIsNothing
<1> QED
  BY <1>3, <1>4, <1>5 DEF Next

\* whoever has a row that is waited for is further along: it waits, if at all, for a last row
LEMMA HolderIsAhead ==
  ASSUME Inv, NEW q \in Requests, NEW r \in Requests, WaitsFor(q, r)
  PROVE  /\ tx[r].step \notin {"idle", "asset"}
         /\ tx[q].step = "last" => tx[r].step = "commit"
<1>1. Knows(q) /\ LockOrder /\ r # None
  BY NoneIsNothing DEF Inv
<1>2. CASE tx[q].step = "asset" /\ lock[SecondLock(tx[q].call, tx[q].row, tx[q].on)] = r
  BY <1>1, <1>2, SecondIsAsset DEF LockOrder
<1>3. CASE tx[q].step = "last" /\ lock[LastLock(tx[q].call, tx[q].on)] = r
  <2>1. LastLock(tx[q].call, tx[q].on) \in LastRows
    BY <1>1, <1>3 DEF Knows, Busy, OnCourse, LastLock, LastRows
  <2> QED
    BY <1>1, <1>3, <2>1 DEF LockOrder
<1> QED
  BY <1>2, <1>3 DEF WaitsFor

LEMMA InvNoCircularWait == Inv => NoCircularWait
<1> SUFFICES ASSUME Inv, NEW S \in (SUBSET Requests) \ {{}},
                    \A q \in S : \E r \in S : WaitsFor(q, r)
             PROVE  FALSE
  BY DEF NoCircularWait
<1>1. PICK q \in S : q \in Requests
  OBVIOUS
<1>2. PICK r \in S : r \in Requests /\ WaitsFor(q, r)
  BY <1>1
<1>3. PICK s \in S : s \in Requests /\ WaitsFor(r, s)
  BY <1>2
<1>4. PICK u \in S : u \in Requests /\ WaitsFor(s, u)
  BY <1>3
<1>5. tx[r].step = "last"
  BY <1>1, <1>2, <1>3, HolderIsAhead DEF WaitsFor
<1>6. tx[s].step = "commit"
  BY <1>2, <1>3, <1>5, HolderIsAhead
<1> QED
  BY <1>4, <1>6 DEF WaitsFor

LEMMA InvRecordedCost == Inv => RecordedCostIsComplete
BY DEF Inv, RecordedWhenClosed, RecordedCostIsComplete

-----------------------------------------------------------------------------
(* Theorems *)

\* Under row locks taken in one order and reads of other tables without locks, every
\* commit is one atomic step of AssetLifecycle and every other step is none, for any number
\* of requests (the services of acquisitions, transfers, maintenance and disposals).
THEOREM ImplementationCorrect == Spec => ImplementsLifecycle
<1>1. Init => Lifecycle!Init
  BY DEF Init
<1>2. Inv /\ [Next]_vars => Inv' /\ [Lifecycle!Next]_Lifecycle!vars
  BY NextInv DEF LifecycleStep
<1> QED
  BY <1>1, <1>2, InitInv, PTL DEF Spec, ImplementsLifecycle, Lifecycle!Spec

\* No cost slips in between the sum and the close of a work order, whatever other requests
\* record (maintenance/services.py complete_work_order, create_maintenance_cost).
THEOREM CostsCorrect == Spec => []RecordedCostIsComplete
<1>1. Inv /\ [Next]_vars => Inv'
  BY NextInv
<1> QED
  BY <1>1, InitInv, InvRecordedCost, PTL DEF Spec

\* Among any requests one waits for none of them, so none wait for each other in a circle of
\* any length: the workflow row comes before the asset, the asset before the assignment or
\* the work order sequence (return_asset, create_work_order), and nothing after those.
THEOREM NoCircularWaitCorrect == Spec => []NoCircularWait
<1>1. Inv /\ [Next]_vars => Inv'
  BY NextInv
<1> QED
  BY <1>1, InitInv, InvNoCircularWait, PTL DEF Spec

\* The committed rows are a behaviour of the lifecycle as its theorems know it.
LEMMA CommittedRows == Spec => L!Spec
<1>1. Init => L!Init
  BY SameInit DEF Init
<1>2. Inv /\ [Next]_vars => Inv' /\ [L!Next]_L!vars
  BY NextInv, SameNext DEF LifecycleStep
<1> QED
  BY <1>1, <1>2, InitInv, PTL DEF Spec, L!Spec

\* What the lifecycle promises of atomic services holds of the rows that concurrent
\* requests commit: assets in maintenance match the orders under way, nothing is open on a
\* disposed asset, an asset is capitalized once, no requester approved its own disposal,
\* and closed rows are never written again.
THEOREM LifecycleInherited ==
  Spec => /\ []L!MaintenanceMatchesOrders /\ []L!DisposedIsClosed
          /\ []L!CapitalizedOnce /\ []L!SeparationOfDuties
          /\ L!ActivePlacementMovesByTransfer /\ L!HistoryIsFinal
<1>1. None \notin Assets \cup Places \cup Users /\ AssetLimit \in Nat /\ 0 \in Nat
  BY NoneIsNothing, LimitIsNat
<1>2. L!Spec => []L!MaintenanceMatchesOrders
  BY <1>1, L!MaintenanceCorrect
<1>3. L!Spec => []L!DisposedIsClosed
  BY <1>1, L!DisposalCorrect
<1>4. L!Spec => []L!CapitalizedOnce
  BY <1>1, L!CapitalizationCorrect
<1>5. L!Spec => []L!SeparationOfDuties
  BY <1>1, L!DutiesSeparated
<1>6. L!Spec => L!ActivePlacementMovesByTransfer
  BY <1>1, L!PlacementCorrect
<1>7. L!Spec => L!HistoryIsFinal
  BY <1>1, L!HistoryCorrect
<1> QED
  BY <1>2, <1>3, <1>4, <1>5, <1>6, <1>7, CommittedRows, PTL
=============================================================================
