------------------------- MODULE DepreciationProofs -------------------------
(***************************************************************************)
(* Proofs about the books of Depreciation and the monthly run over them,   *)
(* for any number of assets, months and workers, amounts and lives.        *)
(***************************************************************************)
EXTENDS DepreciationRun, TLAPS

-----------------------------------------------------------------------------
(* The inductive invariant *)

\* One asset's ledger, by itself, is an unbroken chain over its schedule.
Chained(entries, s) ==
  \A i \in 1..Len(entries) :
    /\ entries[i].month = s.start + i - 1
    /\ entries[i].opening = IF i = 1 THEN s.cost ELSE entries[i-1].closing
    /\ entries[i].closing = entries[i].opening - entries[i].amount
    /\ entries[i].accumulated = s.cost - entries[i].closing
    /\ entries[i].closing >= s.residual

\* The register of an asset that was capitalized carries the balances of its ledger.
Carried(a) ==
  asset[a].status # "DRAFT" =>
    asset[a].value = BookValue(a) /\ asset[a].accumulated = asset[a].cost - BookValue(a)

\* Nothing is scheduled before capitalization, and nothing posted before a schedule.
PostedInOrder ==
  \A a \in Assets :
    /\ asset[a].status = "DRAFT" => schedule[a].status = "ABSENT"
    /\ schedule[a].status = "ABSENT" => ledger[a] = <<>>

BooksInv == TypeOK /\ LedgerRollsForward /\ ScheduleKeepsBasis /\ PostedInOrder

LEMMA LedgerParts ==
  LedgerRollsForward <=> \A a \in Assets : /\ Len(ledger[a]) <= schedule[a].life
                                           /\ Chained(ledger[a], schedule[a])
                                           /\ Carried(a)
  BY DEF LedgerRollsForward, Chained, Carried

-----------------------------------------------------------------------------
(* The calculation engine *)

\* A periodic amount is a number of cents: money() of a base over a positive life.
LEMMA RoundHalfUpNat ==
  ASSUME NEW n \in Nat, NEW d \in Nat \ {0}
  PROVE  RoundHalfUp(n, d) \in Nat
<1>1. 2 * n + d \in Nat /\ 2 * d \in Nat /\ 2 * d > 0
  OBVIOUS
<1>2. \A x, y \in Nat : y > 0 => x \div y \in Nat
  OBVIOUS
<1> QED
  BY <1>1, <1>2 DEF RoundHalfUp

\* A plan of d periods is off by half a cent for each of them at most.
LEMMA RoundHalfUpClose ==
  ASSUME NEW n \in Nat, NEW d \in Nat \ {0}
  PROVE  2 * (n - d * RoundHalfUp(n, d)) <= d
<1> DEFINE x == 2 * n + d
           y == 2 * d
           q == x \div y
<1>1. x \in Nat /\ y \in Nat \ {0} /\ q \in Int
  OBVIOUS
<1> HIDE DEF x, y
<1>2. x < y * q + y
  BY <1>1
<1> HIDE DEF q
<1>3. y * q = 2 * (d * q)
  BY <1>1 DEF y
<1>4. d * q \in Int
  BY <1>1
<1>5. 2 * n + d < 2 * (d * q) + 2 * d
  BY <1>2, <1>3 DEF x, y
<1> QED
  BY <1>4, <1>5 DEF RoundHalfUp, q, x, y

\* The amount of a period is not negative and takes the carrying amount at most to the
\* residual value.
LEMMA PeriodAmountBounds ==
  ASSUME NEW s \in ScheduleRow, NEW opening \in Nat, NEW accumulated \in Nat,
         Depreciable(s, accumulated), opening >= s.residual
  PROVE  /\ PeriodAmount(s, opening, accumulated) \in Nat
         /\ opening - PeriodAmount(s, opening, accumulated) >= s.residual
  BY DEF ScheduleRow, Depreciable, PeriodAmount, Smaller

\* The chain goes on with an entry that continues its last one.
LEMMA ChainExtends ==
  ASSUME NEW entries \in Seq(Entry), NEW s \in ScheduleRow, NEW e \in Entry,
         Chained(entries, s),
         e.month = s.start + Len(entries),
         e.opening = IF entries = <<>> THEN s.cost ELSE entries[Len(entries)].closing,
         e.closing = e.opening - e.amount,
         e.accumulated = s.cost - e.closing,
         e.closing >= s.residual
  PROVE  Chained(Append(entries, e), s)
<1> DEFINE after == Append(entries, e)
<1>1. Len(after) = Len(entries) + 1 /\ Len(entries) \in Nat
  OBVIOUS
<1>2. after[Len(entries) + 1] = e /\ \A i \in 1..Len(entries) : after[i] = entries[i]
  OBVIOUS
<1>3. entries = <<>> <=> Len(entries) = 0
  OBVIOUS
<1> SUFFICES ASSUME NEW i \in 1..Len(after)
             PROVE  /\ after[i].month = s.start + i - 1
                    /\ after[i].opening = IF i = 1 THEN s.cost ELSE after[i-1].closing
                    /\ after[i].closing = after[i].opening - after[i].amount
                    /\ after[i].accumulated = s.cost - after[i].closing
                    /\ after[i].closing >= s.residual
  BY DEF Chained
<1> HIDE DEF after
<1>4. CASE i \in 1..Len(entries)
  <2>1. i # 1 => after[i-1] = entries[i-1]
    BY <1>4, <1>2, <1>1
  <2> QED
    BY <1>4, <1>2, <2>1 DEF Chained
<1>5. CASE i = Len(entries) + 1
  <2>1. i # 1 => after[i-1] = entries[Len(entries)]
    BY <1>5, <1>2, <1>1
  <2>2. s.start \in Nat
    BY DEF ScheduleRow
  <2> QED
    BY <1>5, <1>1, <1>2, <1>3, <2>1, <2>2
<1> QED
  BY <1>1, <1>4, <1>5

-----------------------------------------------------------------------------
(* The initial state *)

LEMMA InitBooks == Init => BooksInv
<1> SUFFICES ASSUME Init PROVE BooksInv
  OBVIOUS
<1>1. TypeOK
  <2>1. asset \in [Assets -> AssetRow]
    BY AmountsAreCents, LivesArePositive, LastMonthIsNat DEF Init, AssetRow, Months
  <2> QED
    BY <2>1 DEF Init, TypeOK, ScheduleRow, PeriodStatus, Snapshot
<1>2. LedgerRollsForward
  <2> SUFFICES ASSUME NEW a \in Assets
               PROVE  /\ Len(ledger[a]) <= schedule[a].life
                      /\ Chained(ledger[a], schedule[a]) /\ Carried(a)
    BY LedgerParts
  <2>1. ledger[a] = <<>> /\ Len(ledger[a]) = 0 /\ 1..Len(ledger[a]) = {}
    BY DEF Init
  <2>2. Chained(ledger[a], schedule[a])
    BY <2>1 DEF Chained
  <2>3. schedule[a].life = 0 /\ asset[a].status = "DRAFT"
    BY DEF Init
  <2> QED
    BY <2>1, <2>2, <2>3 DEF Carried
<1>3. ScheduleKeepsBasis /\ PostedInOrder
  BY DEF Init, ScheduleKeepsBasis, PostedInOrder
<1> QED
  BY <1>1, <1>2, <1>3 DEF BooksInv

-----------------------------------------------------------------------------
(* The register and the calendar *)

\* What the chain of an asset depends on is its ledger, its schedule, and three columns
\* of its row.
LEMMA LedgerUndisturbed ==
  ASSUME LedgerRollsForward, UNCHANGED <<schedule, ledger>>,
         \A a \in Assets : Carried(a) => Carried(a)'
  PROVE  LedgerRollsForward'
<1>1. \A a \in Assets : /\ Len(ledger'[a]) <= schedule'[a].life
                        /\ Chained(ledger'[a], schedule'[a])
                        /\ Carried(a)'
  BY LedgerParts DEF Chained
<1> QED
  BY <1>1 DEF LedgerRollsForward, Chained, Carried

LEMMA UpdateAssetBooks ==
  ASSUME BooksInv, NEW a \in Assets, NEW r \in Residuals, NEW l \in Lives, NEW s \in Months,
         UpdateAsset(a, r, l, s)
  PROVE  BooksInv'
<1> USE DEF BooksInv, UpdateAsset
<1>1. TypeOK'
  <2>1. r \in Nat /\ l \in Nat /\ s \in Nat
    BY AmountsAreCents, LivesArePositive, LastMonthIsNat DEF Months
  <2>2. [asset[a] EXCEPT !.residual = r, !.life = l, !.start = s] \in AssetRow
    BY <2>1 DEF TypeOK, AssetRow
  <2>3. asset' = [asset EXCEPT ![a] = [asset[a] EXCEPT !.residual = r, !.life = l, !.start = s]]
    BY DEF TypeOK
  <2>4. asset' \in [Assets -> AssetRow]
    BY <2>2, <2>3 DEF TypeOK
  <2> QED
    BY <2>4 DEF TypeOK
<1>2. LedgerRollsForward'
  <2>1. \A b \in Assets : Carried(b) => Carried(b)'
    BY DEF TypeOK, AssetRow, Carried, BookValue
  <2> QED
    BY <2>1, LedgerUndisturbed
<1>3. ScheduleKeepsBasis'
  BY DEF TypeOK, AssetRow, ScheduleKeepsBasis, PostedInOrder
<1>4. PostedInOrder'
  BY DEF TypeOK, AssetRow, PostedInOrder
<1> QED
  BY <1>1, <1>2, <1>3, <1>4

LEMMA CapitalizeBooks ==
  ASSUME BooksInv, NEW a \in Assets, NEW c \in Costs, CapitalizeAcquisition(a, c)
  PROVE  BooksInv'
<1> USE DEF BooksInv, CapitalizeAcquisition
<1>1. TypeOK'
  <2>1. c \in Nat
    BY AmountsAreCents
  <2>2. [asset[a] EXCEPT !.status = "ACTIVE", !.cost = c, !.value = c] \in AssetRow
    BY <2>1 DEF TypeOK, AssetRow
  <2>3. asset' = [asset EXCEPT ![a] = [asset[a] EXCEPT !.status = "ACTIVE", !.cost = c,
                                                        !.value = c]]
    BY DEF TypeOK
  <2>4. asset' \in [Assets -> AssetRow]
    BY <2>2, <2>3 DEF TypeOK
  <2> QED
    BY <2>4 DEF TypeOK
<1>2. LedgerRollsForward'
  <2>1. ASSUME NEW b \in Assets, Carried(b) PROVE Carried(b)'
    <3>1. CASE b = a
      <4>1. ledger'[a] = <<>>
        BY DEF PostedInOrder
      <4>2. asset'[a].cost = c /\ asset'[a].value = c /\ asset'[a].accumulated = 0
        BY DEF TypeOK, AssetRow
      <4>3. c \in Nat
        BY AmountsAreCents
      <4> QED
        BY <3>1, <4>1, <4>2, <4>3 DEF Carried, BookValue
    <3>2. CASE b # a
      BY <3>2, <2>1 DEF TypeOK, Carried, BookValue
    <3> QED
      BY <3>1, <3>2
  <2> QED
    BY <2>1, LedgerUndisturbed
<1>3. ScheduleKeepsBasis'
  BY DEF TypeOK, AssetRow, ScheduleKeepsBasis, PostedInOrder
<1>4. PostedInOrder'
  BY DEF TypeOK, AssetRow, PostedInOrder
<1> QED
  BY <1>1, <1>2, <1>3, <1>4

LEMMA StatusMoveBooks ==
  ASSUME BooksInv, NEW a \in Assets,
         StartWorkOrder(a) \/ RestoreAssetIfNoActiveWork(a) \/ CompleteDisposal(a)
  PROVE  BooksInv'
<1>1. UNCHANGED <<schedule, period, ledger>>
  BY DEF StartWorkOrder, RestoreAssetIfNoActiveWork, CompleteDisposal
<1>2. PICK status \in {"ACTIVE", "IN_MAINTENANCE", "DISPOSED"} :
        asset[a].status # "DRAFT" /\ asset' = [asset EXCEPT ![a].status = status]
  BY DEF StartWorkOrder, RestoreAssetIfNoActiveWork, CompleteDisposal
<1>3. snapshot' \in [Assets -> Snapshot]
  <2>1. asset[a] \in AssetRow /\ snapshot \in [Assets -> Snapshot]
    BY DEF BooksInv, TypeOK
  <2>2. CASE StartWorkOrder(a) \/ RestoreAssetIfNoActiveWork(a)
    BY <2>1, <2>2 DEF StartWorkOrder, RestoreAssetIfNoActiveWork
  <2>3. CASE CompleteDisposal(a)
    <3>1. /\ asset[a].accumulated \in Nat
          /\ asset[a].cost - asset[a].accumulated \in Nat
      BY <2>1, <2>3 DEF AssetRow, CompleteDisposal
    <3> QED
      BY <2>1, <2>3, <3>1 DEF Snapshot, CompleteDisposal
  <2> QED
    BY <2>2, <2>3
<1> USE DEF BooksInv
<1>4. TypeOK'
  BY <1>1, <1>2, <1>3 DEF TypeOK, AssetRow
<1>5. LedgerRollsForward'
  <2>1. \A b \in Assets : Carried(b) => Carried(b)'
    BY <1>1, <1>2 DEF TypeOK, AssetRow, Carried, BookValue
  <2> QED
    BY <1>1, <2>1, LedgerUndisturbed
<1>6. ScheduleKeepsBasis'
  BY <1>1, <1>2, SMTT(30) DEF TypeOK, AssetRow, ScheduleKeepsBasis
<1>7. PostedInOrder'
  BY <1>1, <1>2 DEF TypeOK, AssetRow, PostedInOrder
<1> QED
  BY <1>4, <1>5, <1>6, <1>7

LEMMA PeriodBooks ==
  ASSUME BooksInv, NEW m \in Months, CreateAccountingPeriod(m) \/ CloseAccountingPeriod(m)
  PROVE  BooksInv'
<1>1. UNCHANGED <<asset, schedule, ledger, snapshot>> /\ period' \in [Months -> PeriodStatus]
  BY DEF BooksInv, TypeOK, PeriodStatus, CreateAccountingPeriod, CloseAccountingPeriod
<1> QED
  BY <1>1 DEF BooksInv, TypeOK, LedgerRollsForward, BookValue, ScheduleKeepsBasis, PostedInOrder

-----------------------------------------------------------------------------
(* Schedules and posting *)

LEMMA GenerateBooks ==
  ASSUME BooksInv, NEW a \in Assets, GenerateDepreciationSchedule(a)
  PROVE  BooksInv'
<1> USE DEF BooksInv
<1> DEFINE row == asset[a]
<1>1. row \in AssetRow
  BY DEF TypeOK
<1>2. /\ row.status = "ACTIVE" /\ row.life \in Nat \ {0}
      /\ row.cost - row.residual \in Nat /\ schedule[a].status = "ABSENT"
  BY <1>1 DEF GenerateDepreciationSchedule, AssetRow
<1>3. RoundHalfUp(row.cost - row.residual, row.life) \in Nat
  BY <1>2, RoundHalfUpNat
<1>4. TypeOK'
  BY <1>1, <1>2, <1>3 DEF GenerateDepreciationSchedule, TypeOK, AssetRow, ScheduleRow
<1>5. LedgerRollsForward'
  <2> SUFFICES ASSUME NEW b \in Assets
               PROVE  /\ Len(ledger'[b]) <= schedule'[b].life
                      /\ Chained(ledger'[b], schedule'[b]) /\ Carried(b)'
    BY DEF LedgerRollsForward, Chained, Carried
  <2>1. UNCHANGED <<asset, ledger>>
    BY DEF GenerateDepreciationSchedule
  <2>2. Carried(b)'
    BY <2>1, LedgerParts DEF Carried, BookValue
  <2>3. CASE b = a
    <3>1. ledger'[a] = <<>> /\ Len(ledger'[a]) = 0 /\ 1..Len(ledger'[a]) = {}
      BY <1>2, <2>1 DEF PostedInOrder
    <3>2. schedule'[a].life \in Nat
      BY <1>4 DEF TypeOK, ScheduleRow
    <3> QED
      BY <2>2, <2>3, <3>1, <3>2 DEF Chained
  <2>4. CASE b # a
    <3>1. schedule'[b] = schedule[b]
      BY <2>4 DEF GenerateDepreciationSchedule, TypeOK
    <3> QED
      BY <2>1, <2>2, <3>1, LedgerParts
  <2> QED
    BY <2>3, <2>4
<1>6. ScheduleKeepsBasis'
  BY <1>1, <1>2 DEF GenerateDepreciationSchedule, TypeOK, ScheduleRow, ScheduleKeepsBasis
<1>7. PostedInOrder'
  BY <1>1, <1>2 DEF GenerateDepreciationSchedule, TypeOK, ScheduleRow, PostedInOrder
<1> QED
  BY <1>4, <1>5, <1>6, <1>7

LEMMA PostBooks ==
  ASSUME BooksInv, NEW a \in Assets, NEW m \in Months, NEW by \in Posters,
         PostDepreciation(a, m, by)
  PROVE  BooksInv'
<1> DEFINE s == schedule[a]
           opening == asset[a].value
           prior == PriorAccumulated(a)
           amount == PeriodAmount(s, opening, prior)
           e == [month |-> m, opening |-> opening, amount |-> amount,
                 accumulated |-> prior + amount, closing |-> opening - amount, by |-> by]
<1>1. /\ s \in ScheduleRow /\ asset[a] \in AssetRow /\ opening \in Nat
      /\ ledger[a] \in Seq(Entry) /\ m \in Nat
  BY LastMonthIsNat DEF BooksInv, TypeOK, AssetRow, Months
<1>2. /\ asset[a].status = "ACTIVE" /\ s.status # "ABSENT"
      /\ m = s.start + Len(ledger[a]) /\ Len(ledger[a]) < s.life
      /\ opening = PriorClosing(a) /\ asset[a].accumulated = prior
      /\ Depreciable(s, prior)
      /\ opening - amount >= s.residual
  BY DEF PostDepreciation, MayPost, MayDepreciate, NextMonth
<1>3. /\ s.cost = asset[a].cost /\ s.residual = asset[a].residual
      /\ s.cost - s.residual \in Nat
  BY <1>1, <1>2 DEF BooksInv, ScheduleKeepsBasis, ScheduleRow
<1>4. /\ Chained(ledger[a], s) /\ opening = BookValue(a) /\ prior = s.cost - opening
  BY <1>1, <1>2, <1>3, LedgerParts DEF BooksInv, Carried
<1>5. prior \in Nat
  BY <1>1, <1>2 DEF AssetRow
<1>6. opening >= s.residual
  <2>1. CASE ledger[a] = <<>>
    BY <1>1, <1>3, <1>4, <2>1 DEF BookValue, AssetRow, ScheduleRow
  <2>2. CASE ledger[a] # <<>>
    <3>1. Len(ledger[a]) \in 1..Len(ledger[a])
      BY <1>1, <2>2
    <3> QED
      BY <1>4, <2>2, <3>1 DEF BookValue, Chained
  <2> QED
    BY <2>1, <2>2
<1>7. amount \in Nat
  BY <1>1, <1>2, <1>5, <1>6, PeriodAmountBounds
<1> HIDE DEF amount, prior, opening, s
<1>8. opening - amount \in Nat /\ prior + amount \in Nat
  BY <1>1, <1>2, <1>5, <1>7, SMTT(30) DEF ScheduleRow
<1>9. e \in Entry
  BY <1>1, <1>7, <1>8 DEF Entry
<1>10. /\ ledger' = [ledger EXCEPT ![a] = Append(ledger[a], e)]
       /\ asset' = [asset EXCEPT ![a].accumulated = prior + amount, ![a].value = opening - amount]
       /\ schedule' = [schedule EXCEPT ![a].status =
                         IF Len(ledger[a]) + 1 = s.life THEN "COMPLETE" ELSE s.status]
       /\ UNCHANGED <<period, snapshot>>
  BY DEF PostDepreciation, amount, prior, opening, s
<1> HIDE DEF e
<1>11. /\ asset'[a] = [asset[a] EXCEPT !.accumulated = prior + amount, !.value = opening - amount]
       /\ schedule'[a] = [s EXCEPT !.status =
                            IF Len(ledger[a]) + 1 = s.life THEN "COMPLETE" ELSE s.status]
       /\ ledger'[a] = Append(ledger[a], e)
  BY <1>10 DEF BooksInv, TypeOK, s
<1>12. \A b \in Assets \ {a} :
         asset'[b] = asset[b] /\ schedule'[b] = schedule[b] /\ ledger'[b] = ledger[b]
  BY <1>10 DEF BooksInv, TypeOK
<1>13. asset'[a] \in AssetRow /\ schedule'[a] \in ScheduleRow
  BY <1>1, <1>8, <1>11 DEF AssetRow, ScheduleRow
<1>14. TypeOK'
  <2>1. asset' \in [Assets -> AssetRow] /\ schedule' \in [Assets -> ScheduleRow]
    BY <1>10, <1>12, <1>13 DEF BooksInv, TypeOK
  <2>2. ledger' \in [Assets -> Seq(Entry)]
    BY <1>1, <1>9, <1>10 DEF BooksInv, TypeOK
  <2> QED
    BY <1>10, <2>1, <2>2 DEF BooksInv, TypeOK
<1>15. /\ asset'[a].status = asset[a].status /\ asset'[a].cost = asset[a].cost
       /\ asset'[a].residual = asset[a].residual
       /\ asset'[a].life = asset[a].life /\ asset'[a].start = asset[a].start
       /\ asset'[a].accumulated = prior + amount /\ asset'[a].value = opening - amount
  BY <1>1, <1>11 DEF AssetRow
<1>16. /\ schedule'[a].cost = s.cost /\ schedule'[a].base = s.base
       /\ schedule'[a].residual = s.residual
       /\ schedule'[a].life = s.life /\ schedule'[a].start = s.start
       /\ schedule'[a].status # "ABSENT"
  BY <1>1, <1>2, <1>11 DEF ScheduleRow
<1>17. /\ e.month = m /\ e.opening = opening /\ e.amount = amount
       /\ e.accumulated = prior + amount /\ e.closing = opening - amount
  BY DEF e, s, opening, amount, prior
<1>18. Chained(ledger'[a], schedule'[a])
  <2>1. e.opening = IF ledger[a] = <<>> THEN s.cost ELSE ledger[a][Len(ledger[a])].closing
    BY <1>2, <1>17 DEF PriorClosing, s
  <2>2. s.cost \in Nat
    BY <1>1 DEF ScheduleRow
  <2>3. e.accumulated = s.cost - e.closing
    BY <1>1, <1>4, <1>7, <1>17, <2>2
  <2>4. Chained(Append(ledger[a], e), s)
    BY <1>1, <1>2, <1>4, <1>9, <1>17, <2>1, <2>3, ChainExtends
  <2> QED
    BY <1>11, <1>16, <2>4 DEF Chained
<1>19. Len(ledger'[a]) = Len(ledger[a]) + 1 /\ ledger'[a][Len(ledger'[a])] = e
  BY <1>1, <1>9, <1>11
<1>20. Carried(a)'
  <2>1. s.cost \in Nat
    BY <1>1 DEF ScheduleRow
  <2>2. ledger'[a] # <<>>
    BY <1>1, <1>19
  <2>3. BookValue(a)' = opening - amount
    BY <1>17, <1>19, <2>2 DEF BookValue
  <2> QED
    BY <1>1, <1>3, <1>4, <1>7, <1>15, <2>1, <2>3 DEF Carried
<1>21. LedgerRollsForward'
  <2> SUFFICES ASSUME NEW b \in Assets
               PROVE  /\ Len(ledger'[b]) <= schedule'[b].life
                      /\ Chained(ledger'[b], schedule'[b]) /\ Carried(b)'
    BY DEF LedgerRollsForward, Chained, Carried
  <2>1. CASE b = a
    <3>1. Len(ledger[a]) + 1 <= s.life
      BY <1>1, <1>2 DEF ScheduleRow
    <3> QED
      BY <2>1, <1>16, <1>18, <1>19, <1>20, <3>1
  <2>2. CASE b # a
    BY <2>2, <1>12, LedgerParts DEF BooksInv, Carried, BookValue
  <2> QED
    BY <2>1, <2>2
<1>22. ScheduleKeepsBasis'
  BY <1>2, <1>12, <1>15, <1>16 DEF BooksInv, ScheduleKeepsBasis, s
<1>23. PostedInOrder'
  BY <1>2, <1>12, <1>15, <1>16 DEF BooksInv, PostedInOrder
<1> QED
  BY <1>14, <1>21, <1>22, <1>23 DEF BooksInv

-----------------------------------------------------------------------------
(* Every step keeps the books *)

LEMMA NextBooks == BooksInv /\ [BooksNext]_books => BooksInv'
<1> SUFFICES ASSUME BooksInv, [BooksNext]_books PROVE BooksInv'
  OBVIOUS
<1>1. CASE RegisterNext
  BY <1>1, UpdateAssetBooks, CapitalizeBooks, StatusMoveBooks, GenerateBooks DEF RegisterNext
<1>2. CASE PeriodNext
  BY <1>2, PeriodBooks DEF PeriodNext
<1>3. CASE PostingNext
  BY <1>3, PostBooks DEF PostingNext
<1>4. CASE UNCHANGED books
  BY <1>4, SMTT(30) DEF books, BooksInv, TypeOK, LedgerRollsForward, BookValue, ScheduleKeepsBasis,
              PostedInOrder
<1> QED
  BY <1>1, <1>2, <1>3, <1>4 DEF BooksNext

LEMMA BooksInvariant == BooksSpec => []BooksInv
<1>1. Init => BooksInv
  BY InitBooks
<1>2. BooksInv /\ [BooksNext]_books => BooksInv'
  BY NextBooks
<1> QED
  BY <1>1, <1>2, PTL DEF BooksSpec

\* A disposal and the posting of depreciation, in whatever order, leave a snapshot that says
\* what the ledger says: DISPOSED freezes the row and the ledger it was taken from.
LEMMA NextDisposal ==
  BooksInv /\ DisposalTakesLedgerBalance /\ [BooksNext]_books => DisposalTakesLedgerBalance'
<1> SUFFICES ASSUME BooksInv, DisposalTakesLedgerBalance, [BooksNext]_books,
                    NEW b \in Assets, asset'[b].status = "DISPOSED"
             PROVE  /\ snapshot'[b].carrying = BookValue(b)'
                    /\ snapshot'[b].accumulated = asset'[b].cost - BookValue(b)'
  BY DEF DisposalTakesLedgerBalance
<1>0. asset[b] \in AssetRow /\ asset \in [Assets -> AssetRow] /\ snapshot \in [Assets -> Snapshot]
  BY DEF BooksInv, TypeOK
<1> DEFINE Frozen == /\ asset[b].status = "DISPOSED"
                     /\ UNCHANGED <<snapshot[b], ledger[b], asset[b].cost>>
<1>1. CASE Frozen
  BY <1>1 DEF DisposalTakesLedgerBalance, BookValue
<1>2. CASE CompleteDisposal(b)
  <2>1. UNCHANGED ledger /\ asset'[b].cost = asset[b].cost
    BY <1>0, <1>2 DEF CompleteDisposal, AssetRow
  <2>2. /\ snapshot'[b].carrying = asset[b].cost - asset[b].accumulated
        /\ snapshot'[b].accumulated = asset[b].accumulated
        /\ asset[b].cost - asset[b].accumulated = asset[b].value
        /\ asset[b].status = "ACTIVE"
    BY <1>0, <1>2 DEF CompleteDisposal, Snapshot
  <2>3. asset[b].value = BookValue(b) /\ asset[b].accumulated = asset[b].cost - BookValue(b)
    BY <2>2, LedgerParts DEF BooksInv, Carried
  <2> QED
    BY <2>1, <2>2, <2>3 DEF BookValue
<1>3. ASSUME NEW a \in Assets, CompleteDisposal(a), a # b PROVE Frozen
  BY <1>0, <1>3 DEF CompleteDisposal, AssetRow
<1>4. ASSUME NEW a \in Assets, NEW r \in Residuals, NEW l \in Lives, NEW s \in Months,
             UpdateAsset(a, r, l, s)
      PROVE  Frozen
  BY <1>0, <1>4 DEF UpdateAsset, AssetRow
<1>5. ASSUME NEW a \in Assets, NEW c \in Costs, CapitalizeAcquisition(a, c) PROVE Frozen
  BY <1>0, <1>5 DEF CapitalizeAcquisition, AssetRow
<1>6. ASSUME NEW a \in Assets, StartWorkOrder(a) \/ RestoreAssetIfNoActiveWork(a) PROVE Frozen
  BY <1>0, <1>6 DEF StartWorkOrder, RestoreAssetIfNoActiveWork, AssetRow
<1>7. ASSUME NEW a \in Assets, GenerateDepreciationSchedule(a) PROVE Frozen
  BY <1>7 DEF GenerateDepreciationSchedule
<1>8. CASE PeriodNext \/ UNCHANGED books
  BY <1>1, <1>8 DEF PeriodNext, CreateAccountingPeriod, CloseAccountingPeriod, books
<1>9. ASSUME NEW a \in Assets, NEW m \in Months, NEW by \in Posters, PostDepreciation(a, m, by)
      PROVE  Frozen
  <2>1. asset[a].status = "ACTIVE" /\ UNCHANGED snapshot
    BY <1>9 DEF PostDepreciation, MayPost, MayDepreciate
  <2>2. PICK x, y : asset' = [asset EXCEPT ![a].accumulated = x, ![a].value = y]
    BY <1>9 DEF PostDepreciation
  <2>3. PICK z : ledger' = [ledger EXCEPT ![a] = z]
    BY <1>9 DEF PostDepreciation
  <2>4. a # b
    BY <1>0, <2>1, <2>2 DEF AssetRow
  <2> QED
    BY <1>0, <2>1, <2>2, <2>3, <2>4 DEF BooksInv, TypeOK
<1> HIDE DEF Frozen
<1>10. CASE RegisterNext
  BY <1>10, <1>1, <1>2, <1>3, <1>4, <1>5, <1>6, <1>7 DEF RegisterNext
<1>11. CASE PostingNext
  BY <1>11, <1>1, <1>9 DEF PostingNext
<1> QED
  BY <1>8, <1>10, <1>11 DEF BooksNext

\* One step leaves every entry and every closed period as they are, and adds an entry to an
\* open period alone.
LEMMA NextIsFinal ==
  ASSUME BooksInv, [BooksNext]_books
  PROVE  /\ \A m \in Months : period[m] = "CLOSED" => period'[m] = "CLOSED"
         /\ \A a \in Assets :
              /\ Len(ledger'[a]) >= Len(ledger[a])
              /\ \A i \in 1..Len(ledger'[a]) :
                   IF i <= Len(ledger[a]) THEN ledger'[a][i] = ledger[a][i]
                                          ELSE period[ledger'[a][i].month] = "OPEN"
<1>1. \A a \in Assets : Len(ledger[a]) \in Nat
  BY DEF BooksInv, TypeOK
<1>2. CASE RegisterNext \/ UNCHANGED books
  <2>1. UNCHANGED <<period, ledger>>
    BY <1>2 DEF RegisterNext, books, UpdateAsset, CapitalizeAcquisition, StartWorkOrder,
                RestoreAssetIfNoActiveWork, CompleteDisposal, GenerateDepreciationSchedule
  <2> QED
    BY <1>1, <2>1
<1>3. CASE PeriodNext
  <2>1. PICK m \in Months : CreateAccountingPeriod(m) \/ CloseAccountingPeriod(m)
    BY <1>3 DEF PeriodNext
  <2>2. \A n \in Months : period[n] = "CLOSED" => period'[n] = "CLOSED"
    BY <2>1 DEF BooksInv, TypeOK, CreateAccountingPeriod, CloseAccountingPeriod
  <2>3. UNCHANGED ledger
    BY <2>1 DEF CreateAccountingPeriod, CloseAccountingPeriod
  <2> QED
    BY <1>1, <2>2, <2>3
<1>4. CASE PostingNext
  <2>1. PICK a \in Assets, m \in Months, by \in Posters : PostDepreciation(a, m, by)
    BY <1>4 DEF PostingNext
  <2>2. period[m] = "OPEN" /\ UNCHANGED period
    BY <2>1 DEF PostDepreciation, MayPost, AcceptsPostings
  <2>3. PICK e : e.month = m /\ ledger' = [ledger EXCEPT ![a] = Append(ledger[a], e)]
    BY <2>1 DEF PostDepreciation
  <2>4. e \in Entry
    <3>1. BooksInv'
      BY NextBooks
    <3>2. ledger'[a] \in Seq(Entry) /\ ledger'[a] = Append(ledger[a], e) /\ ledger[a] \in Seq(Entry)
      BY <2>3, <3>1 DEF BooksInv, TypeOK
    <3>3. Len(ledger'[a]) = Len(ledger[a]) + 1 /\ ledger'[a][Len(ledger[a]) + 1] = e
      BY <3>2
    <3> QED
      BY <3>2, <3>3
  <2>5. /\ Len(ledger'[a]) = Len(ledger[a]) + 1
        /\ ledger'[a][Len(ledger[a]) + 1] = e
        /\ \A i \in 1..Len(ledger[a]) : ledger'[a][i] = ledger[a][i]
    BY <2>3, <2>4 DEF BooksInv, TypeOK
  <2>6. \A b \in Assets \ {a} : ledger'[b] = ledger[b]
    BY <2>3 DEF BooksInv, TypeOK
  <2> QED
    BY <1>1, <2>2, <2>3, <2>5, <2>6
<1> QED
  BY <1>2, <1>3, <1>4 DEF BooksNext

-----------------------------------------------------------------------------
(* The remainder of a schedule *)

\* A schedule is posted at its periodic amount until the base is used up, and is complete
\* only after the last of its months.
PacedSchedule(s, posted, accumulated) ==
  s.status # "ABSENT" =>
    /\ s.life \in Nat \ {0} /\ s.periodic = RoundHalfUp(s.base, s.life)
    /\ accumulated = s.base \/ accumulated = posted * s.periodic
    /\ s.status = "COMPLETE" => posted = s.life

Paced == \A a \in Assets : PacedSchedule(schedule[a], Len(ledger[a]), asset[a].accumulated)

LEMMA ZeroPlan ==
  ASSUME NEW d \in Nat \ {0}
  PROVE  RoundHalfUp(0, d) = 0
<1> DEFINE q == d \div (2 * d)
<1>1. 2 * d \in Nat \ {0} /\ q \in Int /\ 2 * d > d
  OBVIOUS
<1>2. 2 * d * q <= d /\ d < 2 * d * q + 2 * d
  BY <1>1
<1> HIDE DEF q
<1>3. q = 0
  BY <1>1, <1>2
<1> QED
  BY <1>3 DEF RoundHalfUp, q

LEMMA PacedBounds == BooksInv /\ Paced => RemainderIsBounded
<1> SUFFICES ASSUME BooksInv, Paced, NEW a \in Assets, schedule[a].status = "COMPLETE"
             PROVE  2 * (schedule[a].base - asset[a].accumulated) <= schedule[a].life
  BY DEF RemainderIsBounded
<1> DEFINE s == schedule[a]
<1>1. s.base \in Nat /\ s.life \in Nat \ {0} /\ s.periodic = RoundHalfUp(s.base, s.life)
  BY DEF BooksInv, TypeOK, ScheduleRow, Paced, PacedSchedule
<1>2. asset[a].accumulated = s.base \/ asset[a].accumulated = s.life * s.periodic
  BY DEF Paced, PacedSchedule
<1>3. 2 * (s.base - s.life * s.periodic) <= s.life
  BY <1>1, RoundHalfUpClose
<1> HIDE DEF s
<1>4. CASE asset[a].accumulated = s.base
  BY <1>1, <1>4 DEF s
<1>5. CASE asset[a].accumulated = s.life * s.periodic
  BY <1>3, <1>5 DEF s
<1> QED
  BY <1>2, <1>4, <1>5

LEMMA GeneratePaced ==
  ASSUME BooksInv, Paced, NEW a \in Assets, GenerateDepreciationSchedule(a)
  PROVE  Paced'
<1> DEFINE row == asset[a]
<1>1. /\ row \in AssetRow /\ row.life > 0 /\ row.accumulated = 0 /\ schedule[a].status = "ABSENT"
      /\ UNCHANGED <<asset, ledger>>
      /\ schedule' = [schedule EXCEPT ![a] =
           [status |-> "ACTIVE", cost |-> row.cost, base |-> row.cost - row.residual,
            residual |-> row.residual, life |-> row.life, start |-> row.start,
            periodic |-> RoundHalfUp(row.cost - row.residual, row.life)]]
  BY DEF GenerateDepreciationSchedule, BooksInv, TypeOK
<1>2. \A b \in Assets \ {a} : schedule'[b] = schedule[b]
  BY <1>1 DEF BooksInv, TypeOK
<1>3. Len(ledger[a]) = 0
  BY <1>1 DEF BooksInv, PostedInOrder
<1>4. schedule'[a] \in ScheduleRow
  BY GenerateBooks DEF BooksInv, TypeOK
<1>5. /\ schedule'[a].status = "ACTIVE" /\ schedule'[a].life = row.life
      /\ schedule'[a].periodic = RoundHalfUp(schedule'[a].base, schedule'[a].life)
  BY <1>1 DEF BooksInv, TypeOK
<1>6. schedule'[a].periodic \in Nat /\ row.life \in Nat \ {0}
  BY <1>1, <1>4 DEF AssetRow, ScheduleRow
<1>7. PacedSchedule(schedule'[a], Len(ledger'[a]), asset'[a].accumulated)
  BY <1>1, <1>3, <1>5, <1>6 DEF PacedSchedule
<1> QED
  BY <1>1, <1>2, <1>7 DEF Paced

LEMMA PostPaced ==
  ASSUME BooksInv, Paced, NEW a \in Assets, NEW m \in Months, NEW by \in Posters,
         PostDepreciation(a, m, by)
  PROVE  Paced'
<1> DEFINE s == schedule[a]
           n == Len(ledger[a])
           prior == asset[a].accumulated
           opening == asset[a].value
           amount == PeriodAmount(s, opening, prior)
<1>1. /\ PriorAccumulated(a) = prior /\ s.status # "ABSENT" /\ n < s.life
      /\ Depreciable(s, prior) /\ asset[a].status = "ACTIVE"
  BY DEF PostDepreciation, MayPost, MayDepreciate
<1>2. /\ asset' = [asset EXCEPT ![a].accumulated = prior + amount,
                                ![a].value = opening - amount]
      /\ schedule' = [schedule EXCEPT ![a].status =
                        IF n + 1 = s.life THEN "COMPLETE" ELSE s.status]
  BY <1>1 DEF PostDepreciation
<1>3. PICK e : ledger' = [ledger EXCEPT ![a] = Append(ledger[a], e)]
  BY DEF PostDepreciation
<1>4. \A b \in Assets \ {a} :
        asset'[b] = asset[b] /\ schedule'[b] = schedule[b] /\ ledger'[b] = ledger[b]
  BY <1>2, <1>3 DEF BooksInv, TypeOK
<1>5. s \in ScheduleRow /\ asset[a] \in AssetRow /\ ledger[a] \in Seq(Entry)
  BY DEF BooksInv, TypeOK
<1>6. Len(ledger'[a]) = n + 1 /\ n \in Nat
  <2>1. BooksInv'
    BY PostBooks
  <2>2. ledger'[a] \in Seq(Entry) /\ ledger'[a] = Append(ledger[a], e)
    BY <1>3, <2>1 DEF BooksInv, TypeOK
  <2> QED
    BY <1>5, <2>2
<1>7. asset'[a].accumulated = prior + amount
  BY <1>2, <1>5 DEF AssetRow, BooksInv, TypeOK
<1>8. /\ schedule'[a].base = s.base /\ schedule'[a].life = s.life
      /\ schedule'[a].periodic = s.periodic
      /\ schedule'[a].status = IF n + 1 = s.life THEN "COMPLETE" ELSE s.status
  BY <1>2, <1>5 DEF ScheduleRow, BooksInv, TypeOK
\* what is left of the value is what is left of the base
<1>9. opening - s.residual = s.base - prior
  <2>1. /\ s.cost = asset[a].cost /\ s.residual = asset[a].residual
        /\ s.base = asset[a].cost - asset[a].residual
    BY <1>1 DEF BooksInv, ScheduleKeepsBasis
  <2>2. opening = BookValue(a) /\ prior = asset[a].cost - BookValue(a)
    BY <1>1, LedgerParts DEF BooksInv, Carried
  <2>3. /\ asset[a].cost \in Int /\ asset[a].residual \in Int /\ opening \in Int /\ prior \in Int
    BY <1>5 DEF AssetRow
  <2> QED
    BY <2>1, <2>2, <2>3
<1>10. /\ s.base \in Nat /\ s.periodic \in Nat /\ prior \in Nat /\ s.life \in Nat
       /\ prior = s.base \/ prior = n * s.periodic
       /\ s.life \in Nat \ {0} /\ s.periodic = RoundHalfUp(s.base, s.life)
  BY <1>1, <1>5 DEF ScheduleRow, AssetRow, Paced, PacedSchedule
<1>11. amount = IF s.base = 0 THEN 0 ELSE Smaller(s.periodic, s.base - prior)
  BY <1>5, <1>9, <1>10 DEF PeriodAmount, Smaller
<1>12. s.base = 0 \/ prior < s.base
  BY <1>1 DEF Depreciable
<1> HIDE DEF s, n, prior, opening, amount
<1>13. prior + amount = s.base \/ prior + amount = (n + 1) * s.periodic
  <2>1. CASE s.base = 0
    <3>1. amount = 0 /\ (prior = s.base \/ prior = n * s.periodic)
      BY <1>10, <1>11, <2>1
    <3>2. s.periodic = 0
      BY <1>10, <2>1, ZeroPlan
    <3> QED
      BY <1>6, <1>10, <2>1, <3>1, <3>2
  <2>2. CASE s.base # 0
    <3>1. prior = n * s.periodic
      BY <1>10, <1>12, <2>2
    <3>2. (n + 1) * s.periodic = n * s.periodic + s.periodic
      BY <1>6, <1>10
    <3> HIDE DEF Smaller
    <3>3. amount = s.periodic \/ amount = s.base - prior
      BY <1>11, <2>2 DEF Smaller
    <3> QED
      BY <1>10, <3>1, <3>2, <3>3
  <2> QED
    BY <2>1, <2>2
<1>14. PacedSchedule(schedule'[a], Len(ledger'[a]), asset'[a].accumulated)
  <2>1. s.status # "COMPLETE"
    BY <1>1, <1>6, <1>10 DEF Paced, PacedSchedule, s, n
  <2>2. schedule'[a].status = "COMPLETE" => n + 1 = s.life
    BY <1>8, <2>1
  <2> QED
    BY <1>6, <1>7, <1>8, <1>10, <1>13, <2>2 DEF PacedSchedule
<1> QED
  BY <1>4, <1>14 DEF Paced

LEMMA NextPaced == BooksInv /\ Paced /\ [BooksNext]_books => Paced'
<1> SUFFICES ASSUME BooksInv, Paced, [BooksNext]_books PROVE Paced'
  OBVIOUS
<1>1. ASSUME UNCHANGED <<schedule, ledger>>,
             \A b \in Assets : asset'[b].accumulated = asset[b].accumulated
      PROVE  Paced'
  BY <1>1 DEF Paced
<1>2. asset \in [Assets -> AssetRow]
  BY DEF BooksInv, TypeOK
<1>3. ASSUME NEW a \in Assets, NEW r \in Residuals, NEW l \in Lives, NEW s \in Months,
             UpdateAsset(a, r, l, s)
      PROVE  Paced'
  BY <1>1, <1>2, <1>3 DEF UpdateAsset, AssetRow
<1>4. ASSUME NEW a \in Assets, NEW c \in Costs, CapitalizeAcquisition(a, c) PROVE Paced'
  BY <1>1, <1>2, <1>4 DEF CapitalizeAcquisition, AssetRow
<1>5. ASSUME NEW a \in Assets,
             StartWorkOrder(a) \/ RestoreAssetIfNoActiveWork(a) \/ CompleteDisposal(a)
      PROVE  Paced'
  BY <1>1, <1>2, <1>5 DEF StartWorkOrder, RestoreAssetIfNoActiveWork, CompleteDisposal, AssetRow
<1>6. CASE PeriodNext \/ UNCHANGED books
  BY <1>1, <1>6 DEF PeriodNext, CreateAccountingPeriod, CloseAccountingPeriod, books
<1>7. CASE RegisterNext
  BY <1>3, <1>4, <1>5, <1>7, GeneratePaced DEF RegisterNext
<1>8. CASE PostingNext
  BY <1>8, PostPaced DEF PostingNext
<1> QED
  BY <1>6, <1>7, <1>8 DEF BooksNext

-----------------------------------------------------------------------------
(* Theorems *)

\* The books keep the shape and the signs their tables demand, for any amounts and lives:
\* no posting makes a balance negative (models.py, posting.py post_depreciation).
THEOREM BooksTyped == BooksSpec => []TypeOK
<1>1. BooksInv => TypeOK
  BY DEF BooksInv
<1> QED
  BY <1>1, BooksInvariant, PTL

\* Every ledger is one unbroken chain over its schedule, and the register carries what its
\* last entry says (posting.py post_depreciation).
THEOREM LedgerCorrect == BooksSpec => []LedgerRollsForward
<1>1. BooksInv => LedgerRollsForward
  BY DEF BooksInv
<1> QED
  BY <1>1, BooksInvariant, PTL

\* No edit of the register moves the basis from under a schedule (assets.py update_asset
\* against schedules.py generate_depreciation_schedule).
THEOREM BasisKept == BooksSpec => []ScheduleKeepsBasis
<1>1. BooksInv => ScheduleKeepsBasis
  BY DEF BooksInv
<1> QED
  BY <1>1, BooksInvariant, PTL

\* What a disposal derecognized is what the ledger still says (complete_disposal against
\* post_depreciation).
THEOREM DisposalSnapshotCorrect == BooksSpec => []DisposalTakesLedgerBalance
<1>1. Init => DisposalTakesLedgerBalance
  BY DEF Init, DisposalTakesLedgerBalance
<1> QED
  BY <1>1, BooksInvariant, NextDisposal, PTL DEF BooksSpec

\* A schedule that was posted to its end leaves at most half a cent per month behind, for any
\* base and life (engine.py calculate_period_amount, posting.py post_depreciation).
THEOREM RemainderCorrect == BooksSpec => []RemainderIsBounded
<1>1. Init => Paced
  BY DEF Init, Paced, PacedSchedule
<1> QED
  BY <1>1, BooksInvariant, NextPaced, PacedBounds, PTL DEF BooksSpec

\* A posted entry stays as it is, entries are added to open periods alone, and a period
\* closes for good (posting.py, periods.py).
THEOREM BooksFinal == BooksSpec => BooksAreFinal
  BY BooksInvariant, NextIsFinal, PTL DEF BooksSpec, BooksAreFinal
-----------------------------------------------------------------------------
(* The monthly run: what a step does to the books under it *)

HasMonth(entries, m) == \E i \in 1..Len(entries) : entries[i].month = m

HasSystem(entries, m) ==
  \E i \in 1..Len(entries) : entries[i].month = m /\ entries[i].by = System

\* A posted month stays posted, and a schedule keeps its months.
BooksGrow ==
  \A a \in Assets :
    /\ \A m \in Months : HasMonth(ledger[a], m) => HasMonth(ledger'[a], m)
    /\ schedule[a].status # "ABSENT" =>
         /\ schedule'[a].status # "ABSENT"
         /\ schedule'[a].start = schedule[a].start /\ schedule'[a].life = schedule[a].life

\* No entry of the batch is added to a month.
NoSystemEntry(m) == \A a \in Assets : HasSystem(ledger'[a], m) <=> HasSystem(ledger[a], m)

LEMMA SamePostings ==
  ASSUME NEW m, NoSystemEntry(m)
  PROVE  SystemPostings(m)' = SystemPostings(m)
<1>1. {a \in Assets : HasSystem(ledger'[a], m)} = {a \in Assets : HasSystem(ledger[a], m)}
  BY DEF NoSystemEntry
<1> QED
  BY <1>1 DEF SystemPostings, HasSystem

LEMMA PostedEntry ==
  ASSUME BooksInv, NEW a \in Assets, NEW m \in Months, NEW by \in Posters,
         PostDepreciation(a, m, by)
  PROVE  /\ BooksInv' /\ BooksGrow /\ HasMonth(ledger'[a], m)
         /\ \A k \in Months : k # m \/ by # System => NoSystemEntry(k)
<1>1. PICK e : /\ e.month = m /\ e.by = by
               /\ ledger' = [ledger EXCEPT ![a] = Append(ledger[a], e)]
  BY DEF PostDepreciation
<1>2. PICK status \in {"ACTIVE", "COMPLETE"} : schedule' = [schedule EXCEPT ![a].status = status]
  BY DEF PostDepreciation, MayPost, BooksInv, TypeOK, ScheduleRow
<1>3. ledger[a] \in Seq(Entry) /\ ledger'[a] = Append(ledger[a], e)
  BY <1>1 DEF BooksInv, TypeOK
<1>4. BooksInv'
  BY PostBooks
<1>5. ledger'[a] \in Seq(Entry)
  BY <1>4 DEF BooksInv, TypeOK
<1>6. /\ Len(ledger[a]) \in Nat /\ Len(ledger'[a]) = Len(ledger[a]) + 1
      /\ \A i \in 1..Len(ledger[a]) : ledger'[a][i] = ledger[a][i]
      /\ ledger'[a][Len(ledger[a]) + 1] = e
  <2>1. Len(ledger'[a]) = Len(ledger[a]) + 1 /\ Len(ledger[a]) \in Nat
    BY <1>3
  <2>2. ledger'[a][Len(ledger[a]) + 1] = e
    BY <1>3, <1>5, <2>1
  <2>3. \A i \in 1..Len(ledger[a]) : ledger'[a][i] = ledger[a][i]
    BY <1>3, <1>5, <2>1
  <2> QED
    BY <2>1, <2>2, <2>3
<1>7. \A b \in Assets \ {a} : ledger'[b] = ledger[b] /\ schedule'[b] = schedule[b]
  BY <1>1, <1>2 DEF BooksInv, TypeOK
<1>8. HasMonth(ledger'[a], m)
  BY <1>1, <1>6 DEF HasMonth
<1>9. \A k \in Months : HasMonth(ledger[a], k) => HasMonth(ledger'[a], k)
  BY <1>6 DEF HasMonth
<1>10. \A k \in Months : k # m \/ by # System =>
          (HasSystem(ledger'[a], k) <=> HasSystem(ledger[a], k))
  BY <1>1, <1>6 DEF HasSystem
<1>11. /\ schedule'[a].status # "ABSENT"
       /\ schedule'[a].start = schedule[a].start /\ schedule'[a].life = schedule[a].life
  BY <1>2 DEF BooksInv, TypeOK, ScheduleRow
<1>12. BooksGrow
  BY <1>7, <1>9, <1>11 DEF BooksGrow
<1>13. \A k \in Months : k # m \/ by # System => NoSystemEntry(k)
  BY <1>7, <1>10 DEF NoSystemEntry
<1> QED
  BY <1>4, <1>8, <1>12, <1>13

\* People add no entry of the batch.
LEMMA PeopleGrow ==
  ASSUME BooksInv, PeopleNext
  PROVE  /\ BooksInv' /\ BooksGrow /\ UNCHANGED jobs
         /\ \A k \in Months : NoSystemEntry(k)
<1> DEFINE Goal == BooksInv' /\ BooksGrow /\ \A k \in Months : NoSystemEntry(k)
<1>1. ASSUME UNCHANGED <<schedule, ledger>>, BooksInv' PROVE Goal
  BY <1>1 DEF BooksGrow, NoSystemEntry
<1>2. ASSUME NEW m \in Months, CreateAccountingPeriod(m) \/ CloseAccountingPeriod(m) PROVE Goal
  <2>1. UNCHANGED <<schedule, ledger>>
    BY <1>2 DEF CreateAccountingPeriod, CloseAccountingPeriod
  <2>2. BooksInv'
    BY <1>2, PeriodBooks
  <2> QED
    BY <1>1, <2>1, <2>2
<1>3. ASSUME NEW a \in Assets, GenerateDepreciationSchedule(a) PROVE Goal
  <2>1. UNCHANGED ledger
    BY <1>3 DEF GenerateDepreciationSchedule
  <2>2. \A b \in Assets : schedule[b].status # "ABSENT" => schedule'[b] = schedule[b]
    BY <1>3 DEF GenerateDepreciationSchedule, BooksInv, TypeOK
  <2>3. BooksInv'
    BY <1>3, GenerateBooks
  <2> QED
    BY <2>1, <2>2, <2>3 DEF BooksGrow, NoSystemEntry
<1>4. ASSUME NEW a \in Assets, StartWorkOrder(a) \/ RestoreAssetIfNoActiveWork(a) PROVE Goal
  <2>1. UNCHANGED <<schedule, ledger>>
    BY <1>4 DEF StartWorkOrder, RestoreAssetIfNoActiveWork
  <2>2. BooksInv'
    BY <1>4, StatusMoveBooks
  <2> QED
    BY <1>1, <2>1, <2>2
<1>5. ASSUME NEW a \in Assets, NEW m \in Months, NEW by \in Posters \ {System},
             PostDepreciation(a, m, by)
      PROVE  Goal
  BY <1>5, PostedEntry
<1> HIDE DEF Goal
<1>6. UNCHANGED jobs
  BY DEF PeopleNext
<1>7. Goal
  BY <1>2, <1>3, <1>4, <1>5 DEF PeopleNext, PeriodNext
<1> QED
  BY <1>6, <1>7 DEF Goal

-----------------------------------------------------------------------------
(* The monthly run: the inductive invariant *)

WorkerRow == [step : {"idle", "begin", "list", "check", "post", "progress", "fail", "end"},
              month : Nat, listed : SUBSET Assets, left : SUBSET Assets, due : SUBSET Assets]

\* The total of a run has no type of its own: it is whatever SystemPostings counts.
RunRow(row) == row = [status |-> row.status, posted |-> row.posted]

JobsTyped ==
  /\ worker \in [Workers -> WorkerRow]
  /\ run = [m \in Months |-> run[m]] /\ \A m \in Months : RunRow(run[m])

Busy(w) == worker[w].step # "idle"

\* The advisory lock: two busy workers execute two months.
Exclusive == \A v, w \in Workers : Busy(v) /\ Busy(w) /\ v # w => worker[v].month # worker[w].month

\* A listed schedule is accounted for: left to check, due, posted or at its end.
Accounted(row, a, s, entries) ==
  /\ s.status # "ABSENT"
  /\ \/ a \in row.due
     \/ row.step = "check" /\ a \in row.left
     \/ HasMonth(entries, row.month)
     \/ s.start + s.life - 1 < row.month

Executing == {"list", "check", "post", "progress"}

\* A worker past the beginning executes a run that is RUNNING, and ends with one that is over.
Sound(w) ==
  /\ Busy(w) => worker[w].month \in Months
  /\ worker[w].step \in Executing => run[worker[w].month].status = "RUNNING"
  /\ worker[w].step = "end" => run[worker[w].month].status \in Finished
  /\ worker[w].step \in {"check", "post", "progress"} =>
       \A a \in worker[w].listed : Accounted(worker[w], a, schedule[a], ledger[a])

JobInv == JobsTyped /\ Exclusive /\ \A w \in Workers : Sound(w)

RunInv == BooksInv /\ JobInv

\* What a step may do to the run of a month: nothing to one that is over, and a run is
\* completed with the total of its month.
RunMoves(m) ==
  \/ run'[m] = run[m] /\ (run[m].status \in Finished => NoSystemEntry(m))
  \/ run[m].status \notin Finished /\ run'[m].status # "COMPLETED"
  \/ run[m].status \notin Finished /\ run'[m].posted = SystemPostings(m) /\ UNCHANGED ledger

LEMMA InitRun == RunInit => RunInv
<1> SUFFICES ASSUME RunInit PROVE RunInv
  OBVIOUS
<1>2. /\ asset \in [Assets -> AssetRow]
      /\ \A a \in Assets : /\ asset[a].status = "ACTIVE" /\ asset[a].accumulated = 0
                           /\ asset[a].value = asset[a].cost
  <2>0. asset \in [Assets -> {CapitalizedAsset(c, r, l, s) :
                               c \in Costs, r \in Residuals, l \in Lives, s \in Months}]
    BY DEF RunInit
  <2>1. asset = [a \in Assets |-> asset[a]] /\ \A a \in Assets : asset[a] \in
          {CapitalizedAsset(c, r, l, s) : c \in Costs, r \in Residuals, l \in Lives, s \in Months}
    BY <2>0
  <2> SUFFICES ASSUME NEW a \in Assets
               PROVE  /\ asset[a] \in AssetRow
                      /\ asset[a].status = "ACTIVE" /\ asset[a].accumulated = 0
                      /\ asset[a].value = asset[a].cost
    BY <2>1
  <2>2. PICK c \in Costs, r \in Residuals, l \in Lives, s \in Months :
          asset[a] = CapitalizedAsset(c, r, l, s)
    BY <2>1
  <2>3. c \in Nat /\ r \in Nat /\ l \in Nat /\ s \in Nat
    BY AmountsAreCents, LivesArePositive, LastMonthIsNat DEF Months
  <2> QED
    BY <2>2, <2>3 DEF CapitalizedAsset, AssetRow
<1>3. TypeOK
  <2>1. /\ schedule \in [Assets -> ScheduleRow] /\ period \in [Months -> PeriodStatus]
        /\ snapshot \in [Assets -> Snapshot]
    BY DEF RunInit, ScheduleRow, PeriodStatus, Snapshot
  <2>2. ledger \in [Assets -> Seq(Entry)]
    BY DEF RunInit
  <2> QED
    BY <1>2, <2>1, <2>2 DEF TypeOK
<1>4. \A a \in Assets : /\ ledger[a] = <<>> /\ Len(ledger[a]) = 0
                        /\ schedule[a].life = 0 /\ schedule[a].status = "ABSENT"
  <2>1. /\ ledger = [a \in Assets |-> <<>>]
        /\ schedule = [a \in Assets |-> [status |-> "ABSENT", cost |-> 0, base |-> 0,
                          residual |-> 0, life |-> 0, start |-> 0, periodic |-> 0]]
    BY DEF RunInit
  <2>2. \A a \in Assets : ledger[a] = <<>>
    BY <2>1
  <2>3. \A a \in Assets : schedule[a].life = 0 /\ schedule[a].status = "ABSENT"
    BY <2>1
  <2>4. Len(<<>>) = 0
    OBVIOUS
  <2> QED
    BY <2>2, <2>3, <2>4
<1>5. LedgerRollsForward
  <2> SUFFICES ASSUME NEW a \in Assets
               PROVE  Len(ledger[a]) <= schedule[a].life /\ Chained(ledger[a], schedule[a]) /\ Carried(a)
    BY LedgerParts
  <2>1. Chained(ledger[a], schedule[a])
    BY <1>4 DEF Chained
  <2>2. Carried(a)
    BY <1>2, <1>4 DEF Carried, BookValue, AssetRow
  <2> QED
    BY <1>4, <2>1, <2>2
<1>6. BooksInv
  BY <1>2, <1>3, <1>4, <1>5 DEF BooksInv, ScheduleKeepsBasis, PostedInOrder
<1>7. /\ worker = [w \in Workers |-> IdleWorker] /\ IdleWorker.step = "idle"
      /\ IdleWorker \in WorkerRow
  BY DEF RunInit, IdleWorker, WorkerRow
<1>8. JobsTyped
  BY <1>7 DEF RunInit, JobsTyped, RunRow
<1>9. Exclusive /\ \A w \in Workers : Sound(w)
  BY <1>7 DEF Exclusive, Sound, Busy, Executing
<1> QED
  BY <1>6, <1>8, <1>9 DEF RunInv, JobInv

-----------------------------------------------------------------------------
(* The monthly run: steps *)

LEMMA NothingPosted ==
  ASSUME UNCHANGED books
  PROVE  BooksGrow /\ UNCHANGED ledger /\ \A m : NoSystemEntry(m)
  BY DEF books, BooksGrow, NoSystemEntry

\* What a busy worker may do to another worker, whose month is not its own.
LEMMA OtherIsSound ==
  ASSUME RunInv, BooksGrow, NEW v \in Workers, worker'[v] = worker[v], Busy(v) =>
           run'[worker[v].month].status = run[worker[v].month].status
  PROVE  Sound(v)'
<1> DEFINE row == worker[v]
<1>1. Sound(v)
  BY DEF RunInv, JobInv
<1>2. Busy(v)' <=> Busy(v)
  BY DEF Busy
<1>3. row.step \in {"check", "post", "progress"} =>
        /\ row.month \in Months
        /\ \A a \in row.listed : a \in Assets /\ Accounted(row, a, schedule[a], ledger[a])
  BY <1>1 DEF Sound, Busy, RunInv, JobInv, JobsTyped, WorkerRow
<1>4. row.step \in {"check", "post", "progress"} => \A a \in row.listed :
        Accounted(row, a, schedule'[a], ledger'[a])
  BY <1>3 DEF Accounted, BooksGrow
<1>5. row.step \in {"check", "post", "progress"} =>
        \A a \in worker'[v].listed :
          Accounted(worker'[v], a, schedule'[a], ledger'[a])
  BY <1>4
<1> QED
  BY <1>1, <1>2, <1>5 DEF Sound, Busy, Executing

\* A step of a busy worker keeps the invariant if it keeps to its month.
KeepsToMonth(w) ==
  /\ Busy(w) /\ JobsTyped'
  /\ \A v \in Workers : v # w => worker'[v] = worker[v]
  /\ worker'[w].step = "idle" \/ worker'[w].month = worker[w].month
  /\ \A m \in Months : m # worker[w].month => run'[m] = run[m]

LEMMA WorkerStepKeeps ==
  ASSUME RunInv, BooksGrow, NEW w \in Workers, KeepsToMonth(w), Sound(w)'
  PROVE  JobInv'
<1>1. Exclusive'
  BY DEF RunInv, JobInv, Exclusive, KeepsToMonth, Busy
<1>2. \A v \in Workers : v # w => Sound(v)'
  BY OtherIsSound DEF RunInv, JobInv, Exclusive, KeepsToMonth, Sound, Busy
<1> QED
  BY <1>1, <1>2 DEF JobInv, KeepsToMonth

\* An action of a worker: what it does to its worker and to the run of its month.
LEMMA BeginSteps ==
  ASSUME RunInv, NEW w \in Workers, BeginRun(w)
  PROVE  JobInv' /\ \A m \in Months : RunMoves(m)
<1> DEFINE month == worker[w].month
<1>1. /\ worker[w] \in WorkerRow /\ worker[w].step = "begin" /\ Busy(w) /\ month \in Months
      /\ RunRow(run[month]) /\ UNCHANGED books
  BY DEF RunInv, JobInv, JobsTyped, Sound, Busy, BeginRun
<1>2. BooksGrow /\ UNCHANGED ledger /\ \A m : NoSystemEntry(m)
  BY <1>1, NothingPosted
<1> DEFINE Effect ==
      /\ JobsTyped' /\ \A v \in Workers : v # w => worker'[v] = worker[v]
      /\ worker'[w].month = month
      /\ \/ worker'[w].step = "end" /\ run'[month].status \in Finished
         \/ worker'[w].step = "list" /\ run'[month].status = "RUNNING"
      /\ \A m \in Months : m # month => run'[m] = run[m]
      /\ \/ run'[month] = run[month]
         \/ run[month].status \notin Finished /\ run'[month].status # "COMPLETED"
<1>3. ASSUME run[month].status \in Finished PROVE Effect
  BY <1>1, <1>3 DEF BeginRun, Goto, RunInv, JobInv, JobsTyped, WorkerRow
<1>4. ASSUME run[month].status \notin Finished, period[month] # "OPEN" PROVE Effect
  <2>1. /\ worker' = [worker EXCEPT ![w].step = "end"]
        /\ run' = [run EXCEPT ![month].status = "FAILED"]
    BY <1>4 DEF BeginRun, Goto
  <2>2. JobsTyped'
    BY <1>1, <2>1 DEF RunInv, JobInv, JobsTyped, WorkerRow, RunRow
  <2> QED
    BY <1>1, <1>4, <2>1, <2>2 DEF RunInv, JobInv, JobsTyped, WorkerRow, RunRow, Finished
<1>5. ASSUME run[month].status \notin Finished, period[month] = "OPEN" PROVE Effect
  <2>1. /\ worker' = [worker EXCEPT ![w].step = "list"]
        /\ run' = [run EXCEPT ![month].status = "RUNNING"]
    BY <1>5 DEF BeginRun, Goto
  <2>2. JobsTyped'
    BY <1>1, <2>1 DEF RunInv, JobInv, JobsTyped, WorkerRow, RunRow
  <2> QED
    BY <1>1, <1>5, <2>1, <2>2 DEF RunInv, JobInv, JobsTyped, WorkerRow, RunRow
<1>6. Effect
  BY <1>3, <1>4, <1>5
<1> HIDE DEF Effect
<1>7. KeepsToMonth(w)
  BY <1>1, <1>6 DEF Effect, KeepsToMonth
<1>8. Sound(w)'
  BY <1>1, <1>6 DEF Effect, Sound, Busy, Executing
<1>9. \A m \in Months : RunMoves(m)
  BY <1>2, <1>6 DEF Effect, RunMoves
<1> QED
  BY <1>2, <1>7, <1>8, <1>9, WorkerStepKeeps

\* Steps of a worker past the beginning, on books that grow.
LEMMA WorkerGoesOn ==
  ASSUME RunInv, BooksGrow, NEW w \in Workers, Busy(w), NEW row \in WorkerRow,
         worker' = [worker EXCEPT ![w] = row],
         row.step = "idle" \/ row.month = worker[w].month, row.step # "begin",
         row.step \in Executing => run'[worker[w].month].status = "RUNNING",
         row.step = "end" => run'[worker[w].month].status \in Finished,
         row.step \in {"check", "post", "progress"} => \A a \in row.listed :
           Accounted(row, a, schedule'[a], ledger'[a]),
         run' = [m \in Months |-> run'[m]], RunRow(run'[worker[w].month]),
         \A m \in Months : m # worker[w].month => run'[m] = run[m]
  PROVE  JobInv'
<1>1. worker'[w] = row /\ worker[w] \in WorkerRow /\ Sound(w)
  BY DEF RunInv, JobInv, JobsTyped
<1>2. JobsTyped'
  BY DEF RunInv, JobInv, JobsTyped
<1>3. KeepsToMonth(w)
  BY <1>1, <1>2 DEF KeepsToMonth, RunInv, JobInv, JobsTyped
<1>4. row.step \in {"check", "post", "progress"} =>
        \A a \in worker'[w].listed :
          Accounted(worker'[w], a, schedule'[a], ledger'[a])
  BY <1>1
<1>5. Sound(w)'
  BY <1>1, <1>4 DEF Sound, Busy, Executing
<1> QED
  BY <1>3, <1>5, WorkerStepKeeps

\* What is known of a worker past the beginning.
LEMMA WorkerFacts ==
  ASSUME RunInv, NEW w \in Workers, Busy(w)
  PROVE  /\ worker[w] \in WorkerRow /\ worker[w].month \in Months /\ worker[w].month \in Nat
         /\ run = [m \in Months |-> run[m]] /\ \A m \in Months : RunRow(run[m])
         /\ worker[w].step \in Executing => run[worker[w].month].status = "RUNNING"
         /\ worker[w].step = "end" => run[worker[w].month].status \in Finished
         /\ worker[w].step \in {"check", "post", "progress"} =>
              \A a \in worker[w].listed :
                a \in Assets /\ Accounted(worker[w], a, schedule[a], ledger[a])
  BY DEF RunInv, JobInv, JobsTyped, Sound, Busy, WorkerRow

\* Steps under which no run moves.
LEMMA StillMoves ==
  ASSUME UNCHANGED run, \A m \in Months : NoSystemEntry(m)
  PROVE  \A m \in Months : RunMoves(m)
  BY DEF RunMoves

LEMMA ListSteps ==
  ASSUME RunInv, NEW w \in Workers, ListSchedules(w)
  PROVE  JobInv' /\ \A m \in Months : RunMoves(m)
<1> DEFINE listed == {a \in Assets : /\ schedule[a].status = "ACTIVE"
                                     /\ asset[a].status = "ACTIVE"
                                     /\ schedule[a].start <= worker[w].month}
           row == [worker[w] EXCEPT !.listed = listed, !.left = listed, !.step = "check"]
<1>1. /\ Busy(w) /\ worker[w].step = "list" /\ UNCHANGED <<books, run>>
      /\ worker' = [worker EXCEPT ![w].listed = listed, ![w].left = listed, ![w].step = "check"]
  BY DEF ListSchedules, Busy
<1>2. BooksGrow /\ UNCHANGED <<ledger, schedule>> /\ \A m : NoSystemEntry(m)
  BY <1>1, NothingPosted DEF books
<1>3. /\ row \in WorkerRow /\ row.step = "check" /\ row.month = worker[w].month
      /\ row.listed = listed /\ row.left = listed
  BY <1>1, WorkerFacts DEF WorkerRow
<1>4. worker' = [worker EXCEPT ![w] = row]
  BY <1>1 DEF RunInv, JobInv, JobsTyped
<1>5. \A a \in listed : schedule'[a].status # "ABSENT"
  BY <1>2
<1> HIDE DEF listed, row
<1>6. \A a \in row.listed : Accounted(row, a, schedule'[a], ledger'[a])
  BY <1>3, <1>5 DEF Accounted
<1>7. JobInv'
  BY <1>1, <1>2, <1>3, <1>4, <1>6, WorkerFacts, WorkerGoesOn DEF Executing
<1> QED
  BY <1>1, <1>2, <1>7, StillMoves

LEMMA CheckSteps ==
  ASSUME RunInv, NEW w \in Workers, NEW a \in Assets, CheckSchedule(w, a)
  PROVE  JobInv' /\ \A m \in Months : RunMoves(m)
<1> DEFINE m == worker[w].month
           over == PostedFor(a, m)
                     \/ (NextMonth(a) = m /\ schedule[a].start + schedule[a].life - 1 < m)
           row == IF ~PostedFor(a, m) /\ NextMonth(a) # m
                  THEN [worker[w] EXCEPT !.step = "fail"]
                  ELSE [worker[w] EXCEPT !.left = worker[w].left \ {a},
                          !.due = IF over THEN worker[w].due ELSE worker[w].due \cup {a}]
<1>1. Busy(w) /\ worker[w].step = "check" /\ UNCHANGED <<books, run>>
  BY DEF CheckSchedule, Busy
<1>2. BooksGrow /\ UNCHANGED <<ledger, schedule>> /\ \A k : NoSystemEntry(k)
  BY <1>1, NothingPosted DEF books
<1>3. row \in WorkerRow /\ row.month = m /\ row.step \in {"check", "fail"}
  BY <1>1, WorkerFacts DEF WorkerRow
<1>4. worker' = [worker EXCEPT ![w] = row]
  BY <1>1 DEF CheckSchedule, Goto, RunInv, JobInv, JobsTyped
<1>5. row.step = "check" => \A b \in row.listed : Accounted(row, b, schedule[b], ledger[b])
  <2> SUFFICES ASSUME row.step = "check", NEW b \in row.listed
               PROVE  Accounted(row, b, schedule[b], ledger[b])
    OBVIOUS
  <2>1. row = [worker[w] EXCEPT !.left = worker[w].left \ {a},
                          !.due = IF over THEN worker[w].due ELSE worker[w].due \cup {a}]
    BY <1>1, WorkerFacts DEF WorkerRow
  <2>2. /\ row.listed = worker[w].listed /\ row.left = worker[w].left \ {a}
        /\ row.due = IF over THEN worker[w].due ELSE worker[w].due \cup {a}
    BY <1>1, <2>1, WorkerFacts DEF WorkerRow
  <2>3. Accounted(worker[w], b, schedule[b], ledger[b])
    BY <1>1, <2>2, WorkerFacts
  <2>4. over => HasMonth(ledger[a], m) \/ schedule[a].start + schedule[a].life - 1 < m
    BY DEF PostedFor, HasMonth
  <2> HIDE DEF row, over
  <2>5. CASE b = a
    BY <1>3, <2>2, <2>3, <2>4, <2>5 DEF Accounted
  <2>6. CASE b # a
    BY <1>1, <1>3, <2>2, <2>3, <2>6 DEF Accounted
  <2> QED
    BY <2>5, <2>6
<1> HIDE DEF row
<1>6. row.step \in {"check", "post", "progress"} => \A b \in row.listed :
        Accounted(row, b, schedule'[b], ledger'[b])
  BY <1>2, <1>3, <1>5 DEF Accounted
<1>7. JobInv'
  BY <1>1, <1>2, <1>3, <1>4, <1>6, WorkerFacts, WorkerGoesOn DEF Executing
<1> QED
  BY <1>1, <1>2, <1>7, StillMoves

LEMMA EndOfChecksSteps ==
  ASSUME RunInv, NEW w \in Workers, EndOfChecks(w)
  PROVE  JobInv' /\ \A m \in Months : RunMoves(m)
<1> DEFINE row == [worker[w] EXCEPT !.step = "post"]
<1>1. /\ Busy(w) /\ worker[w].step = "check" /\ worker[w].left = {} /\ UNCHANGED <<books, run>>
      /\ worker' = [worker EXCEPT ![w].step = "post"]
  BY DEF EndOfChecks, Busy, Goto
<1>2. BooksGrow /\ UNCHANGED <<ledger, schedule>> /\ \A k : NoSystemEntry(k)
  BY <1>1, NothingPosted DEF books
<1>3. /\ row \in WorkerRow /\ row.month = worker[w].month /\ row.step = "post"
      /\ row.listed = worker[w].listed /\ row.due = worker[w].due
  BY <1>1, WorkerFacts DEF WorkerRow
<1>4. worker' = [worker EXCEPT ![w] = row]
  BY <1>1 DEF RunInv, JobInv, JobsTyped
<1> HIDE DEF row
<1>5. \A a \in row.listed : Accounted(row, a, schedule'[a], ledger'[a])
  BY <1>1, <1>2, <1>3, WorkerFacts DEF Accounted
<1>6. JobInv'
  BY <1>1, <1>2, <1>3, <1>4, <1>5, WorkerFacts, WorkerGoesOn DEF Executing
<1> QED
  BY <1>1, <1>2, <1>6, StillMoves

\* A posting accounts for its asset and belongs to a run that is RUNNING.
LEMMA PostSteps ==
  ASSUME RunInv, NEW w \in Workers, NEW a \in Assets, PostDue(w, a)
  PROVE  BooksInv' /\ JobInv' /\ \A m \in Months : RunMoves(m)
<1> DEFINE month == worker[w].month
           row == [worker[w] EXCEPT !.due = worker[w].due \ {a}, !.step = "progress"]
<1>1. /\ Busy(w) /\ worker[w].step = "post" /\ UNCHANGED run /\ PostDepreciation(a, month, System)
      /\ worker' = [worker EXCEPT ![w].due = @ \ {a}, ![w].step = "progress"]
  BY DEF PostDue, Busy
<1>2. /\ BooksInv' /\ BooksGrow /\ HasMonth(ledger'[a], month)
      /\ \A k \in Months : k # month => NoSystemEntry(k)
  BY <1>1, PostedEntry, WorkerFacts, SystemPosts DEF RunInv
<1>3. /\ row \in WorkerRow /\ row.month = month /\ row.step = "progress"
      /\ row.listed = worker[w].listed /\ row.due = worker[w].due \ {a}
  BY <1>1, WorkerFacts DEF WorkerRow
<1>4. worker' = [worker EXCEPT ![w] = row]
  BY <1>1 DEF RunInv, JobInv, JobsTyped
<1> HIDE DEF row, month
<1>5. \A b \in row.listed : Accounted(row, b, schedule'[b], ledger'[b])
  <2> SUFFICES ASSUME NEW b \in row.listed PROVE Accounted(row, b, schedule'[b], ledger'[b])
    OBVIOUS
  <2>1. b \in Assets /\ Accounted(worker[w], b, schedule[b], ledger[b]) /\ month \in Months
    BY <1>1, <1>3, WorkerFacts DEF month
  <2>2. CASE b = a
    BY <1>2, <1>3, <2>1, <2>2 DEF Accounted, BooksGrow
  <2>3. CASE b # a
    BY <1>1, <1>2, <1>3, <2>1, <2>3 DEF Accounted, BooksGrow, month
  <2> QED
    BY <2>2, <2>3
<1>6. JobInv'
  BY <1>1, <1>2, <1>3, <1>4, <1>5, WorkerFacts, WorkerGoesOn DEF month, Executing
<1>7. \A m \in Months : RunMoves(m)
  BY <1>1, <1>2, WorkerFacts DEF RunMoves, Finished, month, Executing
<1> QED
  BY <1>2, <1>6, <1>7

\* Steps that send a worker to the except branch.
LEMMA FailSteps ==
  ASSUME RunInv, NEW w \in Workers, (\E a \in Assets : PostRejected(w, a)) \/ RaiseError(w)
  PROVE  JobInv' /\ \A m \in Months : RunMoves(m)
<1> DEFINE row == [worker[w] EXCEPT !.step = "fail"]
<1>1. /\ Busy(w) /\ UNCHANGED <<books, run>>
      /\ worker' = [worker EXCEPT ![w].step = "fail"]
  BY DEF PostRejected, RaiseError, Busy, Goto
<1>2. BooksGrow /\ \A k : NoSystemEntry(k)
  BY <1>1, NothingPosted
<1>3. row \in WorkerRow /\ row.month = worker[w].month /\ row.step = "fail"
  BY <1>1, WorkerFacts DEF WorkerRow
<1>4. worker' = [worker EXCEPT ![w] = row]
  BY <1>1 DEF RunInv, JobInv, JobsTyped
<1> HIDE DEF row
<1>5. JobInv'
  BY <1>1, <1>2, <1>3, <1>4, WorkerFacts, WorkerGoesOn DEF Executing
<1> QED
  BY <1>1, <1>2, <1>5, StillMoves

LEMMA ProgressSteps ==
  ASSUME RunInv, NEW w \in Workers, PersistProgress(w)
  PROVE  JobInv' /\ \A m \in Months : RunMoves(m)
<1> DEFINE month == worker[w].month
           row == [worker[w] EXCEPT !.step = "post"]
<1>1. /\ Busy(w) /\ worker[w].step = "progress" /\ UNCHANGED books
      /\ worker' = [worker EXCEPT ![w].step = "post"]
      /\ run' = [run EXCEPT ![month].posted = SystemPostings(month)]
  BY DEF PersistProgress, Busy, Goto
<1>2. BooksGrow /\ UNCHANGED <<ledger, schedule>> /\ \A k : NoSystemEntry(k)
  BY <1>1, NothingPosted DEF books
<1>3. /\ row \in WorkerRow /\ row.month = month /\ row.step = "post"
      /\ row.listed = worker[w].listed /\ row.due = worker[w].due
  BY <1>1, WorkerFacts DEF WorkerRow
<1>4. worker' = [worker EXCEPT ![w] = row]
  BY <1>1 DEF RunInv, JobInv, JobsTyped
<1>5. /\ run' = [m \in Months |-> run'[m]] /\ RunRow(run'[month])
      /\ \A m \in Months : m # month => run'[m] = run[m]
      /\ run'[month].status = "RUNNING" /\ run[month].status = "RUNNING"
  <2>1. /\ run = [m \in Months |-> run[m]] /\ month \in Months
        /\ run[month] = [status |-> run[month].status, posted |-> run[month].posted]
        /\ run[month].status = "RUNNING"
    BY <1>1, WorkerFacts DEF RunRow, Executing
  <2> HIDE DEF month
  <2>2. run'[month] = [status |-> "RUNNING", posted |-> SystemPostings(month)]
    <3>1. run'[month] = [run[month] EXCEPT !.posted = SystemPostings(month)]
      BY <1>1, <2>1
    <3> QED
      BY <2>1, <3>1
  <2>3. run' = [m \in Months |-> run'[m]] /\ \A m \in Months : m # month => run'[m] = run[m]
    BY <1>1, <2>1
  <2> QED
    BY <2>1, <2>2, <2>3 DEF RunRow
<1> HIDE DEF row
<1>6. \A a \in row.listed : Accounted(row, a, schedule'[a], ledger'[a])
  BY <1>1, <1>2, <1>3, WorkerFacts DEF Accounted
<1>7. JobInv'
  <2>1. row.step # "begin" /\ row.step # "end" /\ row.month = worker[w].month
    BY <1>1, <1>3
  <2>2. /\ RunRow(run'[worker[w].month])
        /\ \A m \in Months : m # worker[w].month => run'[m] = run[m]
        /\ run'[worker[w].month].status = "RUNNING"
    BY <1>5
  <2>3. run' = [m \in Months |-> run'[m]] /\ Busy(w) /\ row \in WorkerRow /\ BooksGrow
    BY <1>1, <1>2, <1>3, <1>5
  <2> HIDE DEF month
  <2> QED
    BY <1>4, <1>6, <2>1, <2>2, <2>3, WorkerGoesOn
<1>8. \A m \in Months : RunMoves(m)
  BY <1>2, <1>5 DEF RunMoves, Finished
<1> QED
  BY <1>7, <1>8

\* The run is completed or failed.
LEMMA EndSteps ==
  ASSUME RunInv, NEW w \in Workers, CompleteRun(w) \/ FailRun(w)
  PROVE  JobInv' /\ \A m \in Months : RunMoves(m)
<1> DEFINE month == worker[w].month
           row == [worker[w] EXCEPT !.step = "end"]
<1>1. /\ Busy(w) /\ UNCHANGED books /\ worker' = [worker EXCEPT ![w].step = "end"]
  BY DEF CompleteRun, FailRun, Busy, Goto
<1>2. BooksGrow /\ UNCHANGED ledger /\ \A k : NoSystemEntry(k)
  BY <1>1, NothingPosted
<1>3. row \in WorkerRow /\ row.month = month /\ row.step = "end"
  BY <1>1, WorkerFacts DEF WorkerRow
<1>4. worker' = [worker EXCEPT ![w] = row]
  BY <1>1 DEF RunInv, JobInv, JobsTyped
<1> DEFINE Effect ==
      /\ run' = [m \in Months |-> run'[m]] /\ RunRow(run'[month])
      /\ \A m \in Months : m # month => run'[m] = run[m]
      /\ run'[month].status \in Finished
      /\ \/ run'[month] = run[month]
         \/ /\ run[month].status \notin Finished
            /\ run'[month].status # "COMPLETED" \/ run'[month].posted = SystemPostings(month)
<1>5. ASSUME CompleteRun(w) PROVE Effect
  <2>1. worker[w].step = "post"
        /\ run' = [run EXCEPT ![month] = [status |-> "COMPLETED", posted |-> SystemPostings(month)]]
    BY <1>5 DEF CompleteRun
  <2> QED
    BY <1>1, <2>1, WorkerFacts DEF RunRow, Finished, Executing
<1>6. ASSUME FailRun(w) PROVE Effect
  <2>1. worker[w].step = "fail"
        /\ run' = [run EXCEPT ![month] = IF @.status \in Finished THEN @
                                ELSE [status |-> "FAILED", posted |-> SystemPostings(month)]]
    BY <1>6 DEF FailRun
  <2> QED
    BY <1>1, <2>1, WorkerFacts DEF RunRow, Finished
<1>7. Effect
  BY <1>5, <1>6
<1> HIDE DEF Effect, row
<1>8. JobInv'
  BY <1>1, <1>2, <1>3, <1>4, <1>7, WorkerGoesOn DEF Effect, Executing
<1>9. \A m \in Months : RunMoves(m)
  BY <1>2, <1>7 DEF Effect, RunMoves
<1> QED
  BY <1>8, <1>9

\* The task is acknowledged, or its process is gone: the run stays as it is.
LEMMA LeaveSteps ==
  ASSUME RunInv, NEW w \in Workers, AcknowledgeRun(w) \/ WorkerCrash(w) \/ TaskFails(w)
  PROVE  JobInv' /\ \A m \in Months : RunMoves(m)
<1>1. /\ Busy(w) /\ UNCHANGED <<books, run>> /\ worker' = [worker EXCEPT ![w] = IdleWorker]
  BY DEF AcknowledgeRun, WorkerCrash, TaskFails, Abandon, Busy
<1>2. BooksGrow /\ UNCHANGED ledger /\ \A k : NoSystemEntry(k)
  BY <1>1, NothingPosted DEF books
<1>3. IdleWorker \in WorkerRow /\ IdleWorker.step = "idle"
  BY DEF IdleWorker, WorkerRow
<1>4. JobInv'
  BY <1>1, <1>2, <1>3, WorkerFacts, WorkerGoesOn DEF Executing
<1> QED
  BY <1>1, <1>2, <1>4, StillMoves

\* A delivery: the run is taken up only when no other worker executes it.
LEMMA ReceiveSteps ==
  ASSUME RunInv, NEW w \in Workers, NEW m \in Months, ReceiveRun(w, m)
  PROVE  JobInv' /\ \A k \in Months : RunMoves(k)
<1>1. UNCHANGED <<books, run>> /\ ~Busy(w)
  BY DEF ReceiveRun, Busy
<1>2. BooksGrow /\ \A k : NoSystemEntry(k)
  BY <1>1, NothingPosted
<1>3. \A k \in Months : RunMoves(k)
  BY <1>1, <1>2, StillMoves
<1>4. JobsTyped /\ m \in Nat
  BY LastMonthIsNat DEF RunInv, JobInv, Months
<1>5. CASE RunLocked(m)
  <2>1. UNCHANGED worker
    BY <1>5 DEF ReceiveRun
  <2>2. \A v \in Workers : Sound(v)'
    BY <1>1, <1>2, <2>1, OtherIsSound
  <2> QED
    BY <1>1, <1>3, <2>1, <2>2 DEF RunInv, JobInv, JobsTyped, Exclusive, Busy
<1>6. CASE ~RunLocked(m)
  <2> DEFINE row == [IdleWorker EXCEPT !.step = "begin", !.month = m]
  <2>1. worker' = [worker EXCEPT ![w] = row]
    BY <1>6 DEF ReceiveRun
  <2>2. row \in WorkerRow /\ row.step = "begin" /\ row.month = m
    BY <1>4 DEF IdleWorker, WorkerRow
  <2> HIDE DEF row
  <2>3. worker'[w] = row /\ \A v \in Workers : v # w => worker'[v] = worker[v]
    BY <1>4, <2>1 DEF JobsTyped
  <2>4. JobsTyped'
    BY <1>1, <1>4, <2>1, <2>2 DEF JobsTyped
  <2>5. Exclusive'
    BY <1>6, <2>2, <2>3 DEF RunInv, JobInv, Exclusive, Busy, RunLocked
  <2>6. \A v \in Workers : v # w => Sound(v)'
    BY <1>1, <1>2, <2>3, OtherIsSound
  <2>7. Sound(w)'
    BY <2>2, <2>3 DEF Sound, Busy, Executing
  <2> QED
    BY <1>3, <2>4, <2>5, <2>6, <2>7 DEF JobInv
<1> QED
  BY <1>5, <1>6

\* Scheduling creates the run of a month that has none, and touches no other.
LEMMA BeatSteps ==
  ASSUME RunInv, BeatNext
  PROVE  UNCHANGED books /\ JobInv' /\ \A m \in Months : RunMoves(m)
<1>1. UNCHANGED <<books, worker>>
  BY DEF BeatNext, Beat, ScheduleRun, PublishRun, ScheduleFails, AcknowledgeBeat, SchedulerCrash
<1>2. BooksGrow /\ \A k : NoSystemEntry(k)
  BY <1>1, NothingPosted
<1> DEFINE Created(m) == /\ run[m].status \notin Finished \cup {"RUNNING"}
                         /\ run'[m].status # "COMPLETED"
           Effect == /\ run' = [m \in Months |-> run'[m]]
                     /\ \A m \in Months : RunRow(run'[m]) /\ (run'[m] = run[m] \/ Created(m))
<1>3. JobsTyped
  BY DEF RunInv, JobInv
<1>4. ASSUME UNCHANGED run PROVE Effect
  BY <1>3, <1>4 DEF JobsTyped
<1>5. ASSUME NEW m \in Months, ScheduleRun(m) PROVE Effect
  <2> DEFINE status == IF run[m].status # "ABSENT" THEN run[m].status
                       ELSE IF period[m] = "OPEN" THEN "PENDING" ELSE "FAILED"
  <2>1. run' = [run EXCEPT ![m].status = status]
    BY <1>5 DEF ScheduleRun
  <2>2. /\ run = [k \in Months |-> run[k]]
        /\ run[m] = [status |-> run[m].status, posted |-> run[m].posted]
    BY <1>3 DEF JobsTyped, RunRow
  <2>3. run[m].status = "ABSENT" => status # "COMPLETED" /\ run[m].status \notin Finished \cup {"RUNNING"}
    BY DEF Finished
  <2>4. run[m].status # "ABSENT" => status = run[m].status
    OBVIOUS
  <2> HIDE DEF status
  <2>5. run'[m] = [status |-> status, posted |-> run[m].posted]
    <3>1. run'[m] = [run[m] EXCEPT !.status = status]
      BY <2>1, <2>2
    <3> QED
      BY <2>2, <3>1
  <2>6. run' = [k \in Months |-> run'[k]] /\ \A k \in Months : k # m => run'[k] = run[k]
    BY <2>1, <2>2
  <2>7. \A k \in Months : RunRow(run'[k])
    BY <1>3, <2>5, <2>6 DEF JobsTyped, RunRow
  <2>8. run'[m] = run[m] \/ Created(m)
    BY <2>2, <2>3, <2>4, <2>5
  <2> QED
    BY <2>6, <2>7, <2>8
<1>6. Effect
  <2>1. (\E m \in Months : ScheduleRun(m)) \/ UNCHANGED run
    BY DEF BeatNext, Beat, PublishRun, ScheduleFails, AcknowledgeBeat, SchedulerCrash
  <2> QED
    BY <1>4, <1>5, <2>1
<1>7. \A v \in Workers : Sound(v)'
  <2> SUFFICES ASSUME NEW v \in Workers PROVE Sound(v)'
    OBVIOUS
  <2>1. Sound(v) /\ worker'[v] = worker[v]
    BY <1>1 DEF RunInv, JobInv
  <2>2. CASE worker[v].step \notin Executing \cup {"end"}
    BY <2>1, <2>2 DEF Sound, Busy, Executing
  <2>3. CASE worker[v].step \in Executing \cup {"end"}
    <3>1. worker[v].month \in Months /\ run[worker[v].month].status \in Finished \cup {"RUNNING"}
      BY <2>1, <2>3 DEF Sound, Busy, Executing
    <3>2. run'[worker[v].month] = run[worker[v].month]
      BY <1>6, <3>1
    <3> QED
      BY <1>2, <2>1, <3>2, OtherIsSound
  <2> QED
    BY <2>2, <2>3
<1>8. JobsTyped' /\ Exclusive'
  BY <1>1, <1>3, <1>6 DEF RunInv, JobInv, JobsTyped, Exclusive, Busy
<1>9. \A m \in Months : RunMoves(m)
  BY <1>2, <1>6 DEF RunMoves
<1> QED
  BY <1>1, <1>7, <1>8, <1>9 DEF JobInv

\* Only its worker completes a run that is RUNNING.
LEMMA WhoCompletes ==
  ASSUME RunInv, Next, NEW m \in Months, run[m].status = "RUNNING", run'[m].status = "COMPLETED"
  PROVE  \E w \in Workers : Busy(w) /\ CompleteRun(w) /\ worker[w].month = m
<1>1. /\ run = [k \in Months |-> run[k]]
      /\ run[m] = [status |-> "RUNNING", posted |-> run[m].posted]
  BY DEF RunInv, JobInv, JobsTyped, RunRow
<1>2. ~UNCHANGED run
  BY <1>1
<1>3. ~PeopleNext
  BY <1>2 DEF PeopleNext, jobs
<1>4. ~BeatNext
  <2>1. ASSUME NEW k \in Months, ScheduleRun(k) PROVE FALSE
    <3>1. CASE k = m
      BY <1>1, <2>1, <3>1 DEF ScheduleRun
    <3>2. CASE k # m
      BY <1>1, <2>1, <3>2 DEF ScheduleRun
    <3> QED
      BY <3>1, <3>2
  <2> QED
    BY <1>2, <2>1 DEF BeatNext, Beat, PublishRun, ScheduleFails, AcknowledgeBeat, SchedulerCrash
<1>5. PICK w \in Workers : WorkerNext(w) \/ RaiseError(w) \/ WorkerCrash(w) \/ TaskFails(w)
  BY <1>2, <1>3, <1>4 DEF Next, SessionEnds
<1>6. BeginRun(w) \/ PersistProgress(w) \/ CompleteRun(w) \/ FailRun(w)
  BY <1>2, <1>5 DEF WorkerNext, Execute, RaiseError, WorkerCrash, TaskFails, ListSchedules,
                    EndOfChecks, CheckSchedule, PostDue, PostRejected, ReceiveRun,
                    AcknowledgeRun
<1>7. Busy(w) /\ worker[w].month \in Months
  <2>1. Busy(w)
    BY <1>6 DEF Busy, BeginRun, PersistProgress, CompleteRun, FailRun
  <2> QED
    BY <2>1, WorkerFacts
<1>8. run'[worker[w].month].status = "COMPLETED" => worker[w].month = m
  BY <1>1, <1>6, <1>7 DEF BeginRun, PersistProgress, CompleteRun, FailRun
<1>9. worker[w].month = m
  BY <1>1, <1>6, <1>7 DEF BeginRun, PersistProgress, CompleteRun, FailRun
<1>10. ~BeginRun(w) /\ ~PersistProgress(w) /\ ~FailRun(w)
  BY <1>1, <1>9 DEF BeginRun, PersistProgress, FailRun
<1> QED
  BY <1>6, <1>7, <1>9, <1>10

LEMMA CompletionIsFull == RunInv /\ Next => CompletesInFull
<1> SUFFICES ASSUME RunInv, Next, NEW w \in Workers, CompletesRun(w) PROVE AllPosted(w)
  BY DEF CompletesInFull
<1> DEFINE m == worker[w].month
<1>1. /\ worker[w].step = "post" /\ Busy(w)
      /\ run[m].status = "RUNNING" /\ run'[m].status = "COMPLETED"
  BY DEF CompletesRun, Busy
<1>2. m \in Months
  BY <1>1, WorkerFacts
<1>3. PICK v \in Workers : Busy(v) /\ CompleteRun(v) /\ worker[v].month = m
  BY <1>1, <1>2, WhoCompletes
<1>4. v = w
  BY <1>1, <1>3 DEF RunInv, JobInv, Exclusive
<1>5. worker[w].due = {}
  BY <1>3, <1>4 DEF CompleteRun
<1>6. \A a \in worker[w].listed : Accounted(worker[w], a, schedule[a], ledger[a])
  BY <1>1, WorkerFacts
<1> QED
  BY <1>1, <1>5, <1>6 DEF AllPosted, Accounted, HasMonth, PostedFor

LEMMA StutterRun == UNCHANGED vars /\ RunInv => RunInv'
<1> SUFFICES ASSUME UNCHANGED vars, RunInv PROVE RunInv'
  OBVIOUS
<1>1. UNCHANGED <<books, run, worker>>
  BY DEF vars, jobs
<1>2. BooksInv'
  BY <1>1, NextBooks DEF RunInv
<1>3. \A v \in Workers : Sound(v)'
  BY <1>1, NothingPosted, OtherIsSound
<1>4. JobInv'
  BY <1>1, <1>3 DEF RunInv, JobInv, JobsTyped, Exclusive, Busy
<1> QED
  BY <1>2, <1>4 DEF RunInv

LEMMA StepRun == RunInv /\ Next => RunInv' /\ \A m \in Months : RunMoves(m)
<1> SUFFICES ASSUME RunInv, Next PROVE RunInv' /\ \A m \in Months : RunMoves(m)
  OBVIOUS
<1> DEFINE Goal == RunInv' /\ \A m \in Months : RunMoves(m)
<1>1. ASSUME UNCHANGED books, JobInv', \A m \in Months : RunMoves(m) PROVE Goal
  BY <1>1, NextBooks DEF RunInv
<1>2. ASSUME BeatNext PROVE Goal
  BY <1>1, <1>2, BeatSteps
<1>3. ASSUME PeopleNext \/ \E m \in Months : SessionEnds(m) PROVE Goal
  <2>1. BooksInv' /\ BooksGrow /\ UNCHANGED <<run, worker>> /\ \A m \in Months : NoSystemEntry(m)
    <3>1. CASE PeopleNext
      BY <3>1, PeopleGrow DEF RunInv, jobs
    <3>2. CASE \E m \in Months : SessionEnds(m)
      <4>1. UNCHANGED <<books, run, worker>>
        BY <3>2 DEF SessionEnds
      <4> QED
        BY <4>1, NothingPosted, NextBooks DEF RunInv
    <3> QED
      BY <1>3, <3>1, <3>2
  <2>2. UNCHANGED <<run, worker>>
    BY <2>1
  <2>3. \A v \in Workers : Sound(v)'
    BY <2>1, <2>2, OtherIsSound
  <2>4. JobInv'
    BY <2>2, <2>3 DEF RunInv, JobInv, JobsTyped, Exclusive, Busy
  <2> QED
    BY <2>1, <2>2, <2>4, StillMoves DEF RunInv
<1>4. ASSUME NEW w \in Workers, WorkerNext(w) \/ RaiseError(w) \/ WorkerCrash(w) \/ TaskFails(w)
      PROVE  Goal
  <2>1. CASE \E a \in Assets : PostDue(w, a)
    BY <2>1, PostSteps DEF RunInv
  <2>2. CASE ~\E a \in Assets : PostDue(w, a)
    <3>1. UNCHANGED books
      BY <1>4, <2>2 DEF WorkerNext, Execute, ReceiveRun, BeginRun, ListSchedules, EndOfChecks,
                        PersistProgress, CompleteRun, FailRun, CheckSchedule, PostRejected,
                        RaiseError, WorkerCrash, TaskFails, AcknowledgeRun
    <3>2. JobInv' /\ \A m \in Months : RunMoves(m)
      BY <1>4, <2>2, ReceiveSteps, BeginSteps, ListSteps, CheckSteps, EndOfChecksSteps,
         FailSteps, ProgressSteps, EndSteps, LeaveSteps DEF WorkerNext, Execute
    <3> QED
      BY <1>1, <3>1, <3>2
  <2> QED
    BY <2>1, <2>2
<1> HIDE DEF Goal
<1>5. Goal
  BY <1>2, <1>3, <1>4 DEF Next
<1> QED
  BY <1>5 DEF Goal

LEMMA TotalsKept ==
  RunInv /\ CompletedTotalsAgree /\ [Next]_vars => CompletedTotalsAgree'
<1> SUFFICES ASSUME RunInv, CompletedTotalsAgree, [Next]_vars, NEW m \in Months,
                    run'[m].status = "COMPLETED"
             PROVE  run'[m].posted = SystemPostings(m)'
  BY DEF CompletedTotalsAgree
<1>1. CASE UNCHANGED vars
  BY <1>1 DEF vars, jobs, books, CompletedTotalsAgree, SystemPostings
<1>2. CASE Next
  <2>1. RunMoves(m)
    BY <1>2, StepRun
  <2>2. CASE run'[m] = run[m]
    <3>1. NoSystemEntry(m)
      BY <2>1, <2>2 DEF RunMoves, Finished
    <3> QED
      BY <2>2, <3>1, SamePostings DEF CompletedTotalsAgree
  <2>3. CASE run'[m].posted = SystemPostings(m) /\ UNCHANGED ledger
    BY <2>3 DEF SystemPostings
  <2> QED
    BY <2>1, <2>2, <2>3 DEF RunMoves
<1> QED
  BY <1>1, <1>2

LEMMA FinishedKept == RunInv /\ [Next]_vars => [FinishedRunStays]_vars
<1> SUFFICES ASSUME RunInv, Next, NEW m \in Months, run[m].status \in Finished
             PROVE  run'[m] = run[m] /\ SystemPostings(m)' = SystemPostings(m)
  BY DEF FinishedRunStays
<1>1. run'[m] = run[m] /\ NoSystemEntry(m)
  BY StepRun DEF RunMoves
<1> QED
  BY <1>1, SamePostings

LEMMA RunInvariant == Spec => []RunInv
<1>1. RunInv /\ [Next]_vars => RunInv'
  BY StepRun, StutterRun
<1> QED
  BY <1>1, InitRun, PTL DEF Spec, RunSpec

-----------------------------------------------------------------------------
(* The monthly run: a run that has begun has a message or a worker *)

QueueTyped == queue \in [Months -> Nat]

On(w, m) == Busy(w) /\ worker[w].month = m

Attended(m) == queue[m] > 0 \/ m \in lost \/ \E w \in Workers : On(w, m)

\* Worker w goes on with its month, and touches no other run.
LEMMA GoingOnCarries ==
  ASSUME RunInv, \A m \in Months : run[m].status = "RUNNING" => Attended(m),
         UNCHANGED <<queue, lost>>, NEW w \in Workers, Busy(w),
         Busy(w)', worker'[w].month = worker[w].month,
         \A v \in Workers : v # w => worker'[v] = worker[v],
         \A m \in Months : m # worker[w].month => run'[m] = run[m]
  PROVE  \A m \in Months : run'[m].status = "RUNNING" => Attended(m)'
<1> SUFFICES ASSUME NEW m \in Months, run'[m].status = "RUNNING" PROVE Attended(m)'
  OBVIOUS
<1>1. CASE m = worker[w].month
  BY <1>1 DEF Attended, On
<1>2. CASE m # worker[w].month
  <2>1. Attended(m)
    BY <1>2
  <2>2. \A v \in Workers : On(v, m) => On(v, m)'
    BY DEF On, Busy
  <2> QED
    BY <2>1, <2>2 DEF Attended
<1> QED
  BY <1>1, <1>2

\* The steps in which worker w goes on.
LEMMA GoingOn ==
  ASSUME RunInv, NEW w \in Workers, Execute(w) \/ RaiseError(w), ~AcknowledgeRun(w)
  PROVE  /\ UNCHANGED <<queue, lost>> /\ Busy(w) /\ Busy(w)'
         /\ worker'[w].month = worker[w].month
         /\ \A v \in Workers : v # w => worker'[v] = worker[v]
         /\ \A m \in Months : m # worker[w].month => run'[m] = run[m]
<1>1. /\ UNCHANGED <<queue, lost>> /\ Busy(w)
  BY DEF Execute, RaiseError, BeginRun, ListSchedules, EndOfChecks, PersistProgress, CompleteRun,
         FailRun, CheckSchedule, PostDue, PostRejected, Busy
<1>2. worker \in [Workers -> WorkerRow] /\ worker[w] \in WorkerRow
  BY DEF RunInv, JobInv, JobsTyped
<1> DEFINE Moved == /\ Busy(w)' /\ worker'[w].month = worker[w].month
                    /\ \A v \in Workers : v # w => worker'[v] = worker[v]
<1>3. ASSUME NEW step \in {"list", "post", "fail", "end"}, Goto(w, step) PROVE Moved
  BY <1>2, <1>3 DEF Goto, Busy, WorkerRow
<1>4. ASSUME ListSchedules(w) PROVE Moved
  BY <1>2, <1>4 DEF ListSchedules, Busy, WorkerRow
<1>5. ASSUME NEW a \in Assets, CheckSchedule(w, a) PROVE Moved
  <2>1. CASE Goto(w, "fail")
    BY <1>3, <2>1
  <2>2. CASE ~Goto(w, "fail")
    BY <1>2, <1>5, <2>2 DEF CheckSchedule, Busy, WorkerRow
  <2> QED
    BY <2>1, <2>2
<1>6. ASSUME NEW a \in Assets, PostDue(w, a) PROVE Moved
  BY <1>2, <1>6 DEF PostDue, Busy, WorkerRow
<1> HIDE DEF Moved
<1>7. Moved
  BY <1>3, <1>4, <1>5, <1>6 DEF Execute, RaiseError, BeginRun, EndOfChecks, PersistProgress,
                                CompleteRun, FailRun, PostRejected
<1>8. \A m \in Months : m # worker[w].month => run'[m] = run[m]
  <2>1. run = [m \in Months |-> run[m]] /\ worker[w].month \in Months
    BY <1>1, WorkerFacts
  <2> QED
    BY <2>1 DEF Execute, RaiseError, BeginRun, ListSchedules, EndOfChecks, PersistProgress,
                CompleteRun, FailRun, CheckSchedule, PostDue, PostRejected
<1> QED
  BY <1>1, <1>7, <1>8 DEF Moved

LEMMA CarriedKept ==
  ASSUME RunInv, QueueTyped, StartedRunIsCarried, [Next]_vars
  PROVE  QueueTyped' /\ StartedRunIsCarried'
<1> DEFINE Goal == QueueTyped' /\ \A m \in Months : run'[m].status = "RUNNING" => Attended(m)'
<1>1. \A m \in Months : run[m].status = "RUNNING" => Attended(m)
  BY DEF StartedRunIsCarried, Attended, On, Busy
<1>2. ASSUME UNCHANGED <<run, queue, worker, lost>> PROVE Goal
  BY <1>1, <1>2 DEF QueueTyped, Attended, On, Busy
<1>3. ASSUME BeatNext PROVE Goal
  <2>1. UNCHANGED <<worker, lost>>
    BY <1>3 DEF BeatNext, Beat, ScheduleRun, PublishRun, ScheduleFails, AcknowledgeBeat,
                SchedulerCrash
  <2>2. QueueTyped' /\ \A m \in Months : queue[m] > 0 => queue'[m] > 0
    BY <1>3 DEF BeatNext, Beat, ScheduleRun, PublishRun, ScheduleFails, AcknowledgeBeat,
                SchedulerCrash, QueueTyped
  <2>3. \A m \in Months : run'[m].status = "RUNNING" => run[m].status = "RUNNING"
    <3>1. run = [m \in Months |-> run[m]] /\ \A m \in Months : RunRow(run[m])
      BY DEF RunInv, JobInv, JobsTyped
    <3>2. ASSUME NEW k \in Months, ScheduleRun(k), NEW m \in Months, run'[m].status = "RUNNING"
          PROVE  run[m].status = "RUNNING"
      BY <3>1, <3>2 DEF ScheduleRun, RunRow
    <3>3. (\E k \in Months : ScheduleRun(k)) \/ UNCHANGED run
      BY <1>3 DEF BeatNext, Beat, PublishRun, ScheduleFails, AcknowledgeBeat, SchedulerCrash
    <3> QED
      BY <3>2, <3>3
  <2> QED
    BY <1>1, <2>1, <2>2, <2>3 DEF Attended, On, Busy
<1>4. ASSUME NEW w \in Workers, Execute(w) \/ RaiseError(w), ~AcknowledgeRun(w) PROVE Goal
  BY <1>1, <1>4, GoingOn, GoingOnCarries DEF QueueTyped
<1>5. ASSUME NEW w \in Workers, NEW k \in Months, ReceiveRun(w, k) PROVE Goal
  <2>1. /\ ~Busy(w) /\ UNCHANGED run /\ queue' = [queue EXCEPT ![k] = @ - 1] /\ queue[k] > 0
        /\ lost' = IF k \in orphaned THEN lost \cup {k} ELSE lost
        /\ worker' = IF RunLocked(k) THEN worker
                     ELSE [worker EXCEPT ![w] = [IdleWorker EXCEPT !.step = "begin", !.month = k]]
    BY <1>5 DEF ReceiveRun, Busy
  <2>2. QueueTyped' /\ \A m \in Months : m # k => queue'[m] = queue[m]
    BY <2>1 DEF QueueTyped
  <2>3. \A v \in Workers : \A m \in Months : On(v, m) => On(v, m)'
    BY <2>1 DEF On, Busy, RunInv, JobInv, JobsTyped
  <2>4. Attended(k)'
    <3>1. CASE ~RunLocked(k)
      <4>1. worker'[w] = [IdleWorker EXCEPT !.step = "begin", !.month = k]
        BY <2>1, <3>1 DEF RunInv, JobInv, JobsTyped
      <4> QED
        BY <4>1 DEF Attended, On, Busy, IdleWorker
    <3>2. CASE k \in orphaned
      BY <2>1, <3>2 DEF Attended
    <3>3. CASE RunLocked(k) /\ k \notin orphaned
      BY <2>3, <3>3 DEF Attended, RunLocked, On, Busy
    <3> QED
      BY <3>1, <3>2, <3>3
  <2> QED
    BY <1>1, <2>1, <2>2, <2>3, <2>4 DEF Attended
<1>6. ASSUME NEW w \in Workers, AcknowledgeRun(w) \/ WorkerCrash(w) \/ TaskFails(w) PROVE Goal
  <2>1. /\ Busy(w) /\ UNCHANGED run /\ worker' = [worker EXCEPT ![w] = IdleWorker]
        /\ lost \subseteq lost'
    BY <1>6 DEF AcknowledgeRun, WorkerCrash, TaskFails, Abandon, Busy
  <2>2. PICK month \in Months : month = worker[w].month
    BY <2>1, WorkerFacts
  <2>3. QueueTyped' /\ \A m \in Months : queue[m] > 0 => queue'[m] > 0
    BY <1>6, <2>2 DEF AcknowledgeRun, WorkerCrash, TaskFails, QueueTyped
  <2>4. run[month].status = "RUNNING" => Attended(month)'
    <3>1. CASE AcknowledgeRun(w)
      BY <2>1, <2>2, <3>1, WorkerFacts DEF AcknowledgeRun, Finished
    <3>2. CASE WorkerCrash(w)
      BY <2>2, <3>2 DEF WorkerCrash, QueueTyped, Attended
    <3>3. CASE TaskFails(w)
      BY <2>2, <3>3 DEF TaskFails, Attended
    <3> QED
      BY <1>6, <3>1, <3>2, <3>3
  <2>5. \A v \in Workers : \A m \in Months : m # month /\ On(v, m) => On(v, m)'
    BY <2>1, <2>2 DEF On, Busy, RunInv, JobInv, JobsTyped
  <2>6. \A m \in Months \ {month} : Attended(m) => Attended(m)'
    BY <2>1, <2>3, <2>5 DEF Attended
  <2> QED
    BY <1>1, <2>1, <2>3, <2>4, <2>6
<1> HIDE DEF Goal
<1>7. Goal
  <2>1. CASE UNCHANGED vars \/ PeopleNext \/ \E m \in Months : SessionEnds(m)
    BY <1>2, <2>1 DEF vars, jobs, PeopleNext, SessionEnds
  <2>2. ASSUME NEW w \in Workers, WorkerNext(w) \/ RaiseError(w) \/ WorkerCrash(w) \/ TaskFails(w)
        PROVE  Goal
    BY <1>4, <1>5, <1>6, <2>2 DEF WorkerNext
  <2> QED
    BY <1>3, <2>1, <2>2 DEF Next
<1> QED
  BY <1>7 DEF Goal, StartedRunIsCarried, Attended, On, Busy

-----------------------------------------------------------------------------
(* The monthly run: the theorems *)

\* A run is COMPLETED only when each schedule it listed has its entry or is over, with any
\* number of workers, redeliveries and crashes, and people at work on the same books
\* (automation.py, execute_depreciation_run).
THEOREM CompletedPostedAll == Spec => CompletedRunPostedAll
<1>1. RunInv /\ [Next]_vars => [CompletesInFull]_vars
  BY CompletionIsFull
<1> QED
  BY <1>1, RunInvariant, PTL DEF Spec, RunSpec, CompletedRunPostedAll

\* The totals of a completed run count every system entry of its month, the ones of earlier
\* deliveries included (automation.py, _system_posting_totals).
THEOREM TotalsCorrect == Spec => []CompletedTotalsAgree
<1>1. RunInit => CompletedTotalsAgree
  <2>1. RunInit => run = [m \in Months |-> [status |-> "ABSENT", posted |-> 0]]
    BY DEF RunInit
  <2> QED
    BY <2>1 DEF CompletedTotalsAgree
<1> QED
  BY <1>1, RunInvariant, TotalsKept, PTL DEF Spec, RunSpec

\* A run that is over stays as it ended and gets no further system entry, whatever is still
\* queued or redelivered (automation.py, execute_depreciation_run).
THEOREM RunFinal == Spec => FinishedRunIsFinal
  BY FinishedKept, RunInvariant, PTL DEF Spec, RunSpec, FinishedRunIsFinal

\* A run that has begun and is not over has a message in the queue or a worker on it, unless
\* its message was lost in one of the ways the model names: an acknowledged failure or a
\* delivery that met a dead process's lock (tasks.py, acks_late and reject_on_worker_lost).
THEOREM RunCarried == Spec => []StartedRunIsCarried
<1>1. RunInit => QueueTyped /\ StartedRunIsCarried
  <2>1. RunInit => /\ run = [m \in Months |-> [status |-> "ABSENT", posted |-> 0]]
                   /\ queue = [m \in Months |-> 0]
    BY DEF RunInit
  <2> QED
    BY <2>1 DEF StartedRunIsCarried, QueueTyped
<1>2. RunInv /\ QueueTyped /\ StartedRunIsCarried /\ [Next]_vars => QueueTyped' /\ StartedRunIsCarried'
  BY CarriedKept
<1> QED
  BY <1>1, <1>2, RunInvariant, PTL DEF Spec, RunSpec
=============================================================================
