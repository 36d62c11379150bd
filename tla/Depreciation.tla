---------------------------- MODULE Depreciation ----------------------------
(***************************************************************************)
(* Straight-line depreciation: the accounting basis an asset gets when it  *)
(* is capitalized, the schedule frozen from it, accounting periods, the    *)
(* monthly ledger, and the balances a disposal takes as its snapshot.      *)
(*                                                                         *)
(* Money is an integer number of cents and a month a number counted from   *)
(* the first one; the calendar is external.  Of the workflows that move    *)
(* an asset's status only what posting can observe is here: see            *)
(* AssetLifecycle for the rest.                                            *)
(***************************************************************************)
EXTENDS Integers, Sequences

CONSTANTS
  Assets,
  Costs, Residuals, Lives,   \* the amounts and useful lives that users enter
  LastMonth,                 \* months are 0..LastMonth
  Posters                    \* created_by of an entry

ASSUME AmountsAreCents == Costs \subseteq Nat /\ Residuals \subseteq Nat
ASSUME LivesArePositive == Lives \subseteq Nat \ {0}
ASSUME LastMonthIsNat == LastMonth \in Nat

VARIABLES
  asset,      \* [Assets -> AssetRow]
  schedule,   \* [Assets -> ScheduleRow], at most one schedule per asset
  period,     \* [Months -> PeriodStatus]
  ledger,     \* [Assets -> Seq(Entry)], in posting order
  snapshot    \* [Assets -> Snapshot], what the completed disposal recorded

books == <<asset, schedule, period, ledger, snapshot>>

Months == 0..LastMonth
PeriodStatus == {"ABSENT", "OPEN", "CLOSED"}

AssetRow == [status : {"DRAFT", "ACTIVE", "IN_MAINTENANCE", "DISPOSED"},
             cost : Nat, residual : Nat, life : Nat, start : Nat,
             accumulated : Nat, value : Nat]

ScheduleRow == [status : {"ABSENT", "ACTIVE", "COMPLETE"},
                cost : Nat, base : Nat, residual : Nat, life : Nat, start : Nat,
                periodic : Nat]

Entry == [month : Nat, opening : Nat, amount : Nat, accumulated : Nat, closing : Nat,
          by : Posters]

Snapshot == [accumulated : Nat, carrying : Nat]

Init ==
  /\ asset \in [Assets -> {[status |-> "DRAFT", cost |-> 0, residual |-> r, life |-> l,
                            start |-> s, accumulated |-> 0, value |-> 0] :
                             r \in Residuals, l \in Lives, s \in Months}]
  /\ schedule = [a \in Assets |-> [status |-> "ABSENT", cost |-> 0, base |-> 0, residual |-> 0,
                                   life |-> 0, start |-> 0, periodic |-> 0]]
  /\ period = [m \in Months |-> "ABSENT"]
  /\ ledger = [a \in Assets |-> <<>>]
  /\ snapshot = [a \in Assets |-> [accumulated |-> 0, carrying |-> 0]]

-----------------------------------------------------------------------------
(* The calculation engine *)

\* a plausible bug: the quotient is truncated to cents
Truncated(n, d) == n \div d

\* money(n / d): quantize to cents, ROUND_HALF_UP
RoundHalfUp(n, d) == (2 * n + d) \div (2 * d)

Smaller(x, y) == IF x <= y THEN x ELSE y

\* calculate_period_amount raises unless this holds
Depreciable(s, accumulated) == s.base = 0 \/ accumulated < s.base

PeriodAmount(s, opening, accumulated) ==
  IF s.base = 0 THEN 0
  ELSE Smaller(Smaller(s.periodic, s.base - accumulated), opening - s.residual)

-----------------------------------------------------------------------------
(* The register *)

\* a plausible bug: the accounting fields stay editable after capitalization
UpdateAssetAlways(a, residual, life, start) ==
  /\ asset' = [asset EXCEPT ![a].residual = residual, ![a].life = life, ![a].start = start]
  /\ UNCHANGED <<schedule, period, ledger, snapshot>>

UpdateAsset(a, residual, life, start) ==
  /\ asset[a].status = "DRAFT"
  /\ asset' = [asset EXCEPT ![a].residual = residual, ![a].life = life, ![a].start = start]
  /\ UNCHANGED <<schedule, period, ledger, snapshot>>

CapitalizeAcquisition(a, cost) ==
  /\ asset[a].status = "DRAFT"
  /\ asset[a].value = 0 /\ asset[a].accumulated = 0
  /\ cost > 0
  /\ asset[a].residual <= cost
  /\ asset' = [asset EXCEPT ![a].status = "ACTIVE", ![a].cost = cost, ![a].value = cost]
  /\ UNCHANGED <<schedule, period, ledger, snapshot>>

\* the two status changes maintenance makes (AssetLifecycle has their guards)
StartWorkOrder(a) ==
  /\ asset[a].status = "ACTIVE"
  /\ asset' = [asset EXCEPT ![a].status = "IN_MAINTENANCE"]
  /\ UNCHANGED <<schedule, period, ledger, snapshot>>

RestoreAssetIfNoActiveWork(a) ==
  /\ asset[a].status = "IN_MAINTENANCE"
  /\ asset' = [asset EXCEPT ![a].status = "ACTIVE"]
  /\ UNCHANGED <<schedule, period, ledger, snapshot>>

\* the accounting half of complete_disposal: two balance checks and the snapshot
CompleteDisposal(a) ==
  LET carrying == asset[a].cost - asset[a].accumulated IN
  /\ asset[a].status = "ACTIVE"
  /\ asset[a].accumulated <= asset[a].cost
  /\ carrying >= asset[a].residual
  /\ carrying = asset[a].value
  /\ snapshot' = [snapshot EXCEPT ![a] = [accumulated |-> asset[a].accumulated,
                                          carrying |-> carrying]]
  /\ asset' = [asset EXCEPT ![a].status = "DISPOSED"]
  /\ UNCHANGED <<schedule, period, ledger>>

-----------------------------------------------------------------------------
(* Periods, schedules and posting *)

CreateAccountingPeriod(m) ==
  /\ period[m] = "ABSENT"
  /\ period' = [period EXCEPT ![m] = "OPEN"]
  /\ UNCHANGED <<asset, schedule, ledger, snapshot>>

CloseAccountingPeriod(m) ==
  /\ period[m] = "OPEN"
  /\ period' = [period EXCEPT ![m] = "CLOSED"]
  /\ UNCHANGED <<asset, schedule, ledger, snapshot>>

GenerateDepreciationSchedule(a) ==
  LET row == asset[a] IN
  /\ row.status = "ACTIVE"
  /\ row.life > 0
  /\ row.cost > 0 /\ row.residual <= row.cost
  /\ row.value = row.cost /\ row.accumulated = 0
  /\ schedule[a].status = "ABSENT"
  /\ schedule' = [schedule EXCEPT ![a] =
       [status |-> "ACTIVE", cost |-> row.cost, base |-> row.cost - row.residual,
        residual |-> row.residual, life |-> row.life, start |-> row.start,
        periodic |-> RoundHalfUp(row.cost - row.residual, row.life)]]
  /\ UNCHANGED <<asset, period, ledger, snapshot>>

\* a plausible bug: the month after the one that follows the last posting
NextMonthLate(a) == schedule[a].start + Len(ledger[a]) + 1

\* next_period_for_schedule
NextMonth(a) == schedule[a].start + Len(ledger[a])

\* the balances of the last entry, or of an asset nothing was posted for
PriorAccumulated(a) == IF ledger[a] = <<>> THEN 0 ELSE ledger[a][Len(ledger[a])].accumulated
PriorClosing(a) == IF ledger[a] = <<>> THEN schedule[a].cost ELSE ledger[a][Len(ledger[a])].closing

\* a plausible bug: a closed period is taken for an open one
PeriodExists(m) == period[m] # "ABSENT"

AcceptsPostings(m) == period[m] = "OPEN"

\* a plausible bug: every asset that was capitalized may be depreciated
IsCapitalized(a) == asset[a].status # "DRAFT"

MayDepreciate(a) == asset[a].status = "ACTIVE"

\* every check of post_depreciation, on the balances it reads under its locks
MayPost(a, m) ==
  LET s == schedule[a]
      opening == asset[a].value
  IN /\ AcceptsPostings(m)
     /\ MayDepreciate(a)
     /\ s.status # "ABSENT"
     /\ m = NextMonth(a)
     /\ Len(ledger[a]) < s.life
     /\ opening = PriorClosing(a) /\ asset[a].accumulated = PriorAccumulated(a)
     /\ Depreciable(s, PriorAccumulated(a))
     /\ opening - PeriodAmount(s, opening, PriorAccumulated(a)) >= s.residual

\* post_depreciation: one transaction holding the period, the asset and the schedule
PostDepreciation(a, m, by) ==
  LET s == schedule[a]
      opening == asset[a].value
      amount == PeriodAmount(s, opening, PriorAccumulated(a))
      closing == opening - amount
      accumulated == PriorAccumulated(a) + amount
  IN /\ MayPost(a, m)
     /\ ledger' = [ledger EXCEPT ![a] = Append(@,
          [month |-> m, opening |-> opening, amount |-> amount, accumulated |-> accumulated,
           closing |-> closing, by |-> by])]
     /\ asset' = [asset EXCEPT ![a].accumulated = accumulated, ![a].value = closing]
     /\ schedule' = [schedule EXCEPT ![a].status =
                       IF Len(ledger[a]) + 1 = s.life THEN "COMPLETE" ELSE @]
     /\ UNCHANGED <<period, snapshot>>

-----------------------------------------------------------------------------
RegisterNext ==
  \E a \in Assets :
    \/ \E r \in Residuals, l \in Lives, s \in Months : UpdateAsset(a, r, l, s)
    \/ \E c \in Costs : CapitalizeAcquisition(a, c)
    \/ StartWorkOrder(a) \/ RestoreAssetIfNoActiveWork(a)
    \/ CompleteDisposal(a)
    \/ GenerateDepreciationSchedule(a)

PeriodNext == \E m \in Months : CreateAccountingPeriod(m) \/ CloseAccountingPeriod(m)

PostingNext == \E a \in Assets, m \in Months, by \in Posters : PostDepreciation(a, m, by)

BooksNext == RegisterNext \/ PeriodNext \/ PostingNext

BooksSpec == Init /\ [][BooksNext]_books

-----------------------------------------------------------------------------
(* Properties *)

\* Every row keeps the shape, and every amount the sign, that its table demands.
TypeOK ==
  /\ asset \in [Assets -> AssetRow]
  /\ schedule \in [Assets -> ScheduleRow]
  /\ period \in [Months -> PeriodStatus]
  /\ ledger \in [Assets -> Seq(Entry)]
  /\ snapshot \in [Assets -> Snapshot]

\* What the register shows for an asset is what its ledger says.
BookValue(a) == IF ledger[a] = <<>> THEN asset[a].cost ELSE ledger[a][Len(ledger[a])].closing

\* The ledger of every asset is one unbroken chain: consecutive months from the start of
\* the schedule and never more than its life, each opening at the previous closing, every
\* closing at or above the residual value and equal to cost less what is accumulated; and
\* the register carries the balances the last entry left (posting.py post_depreciation).
LedgerRollsForward ==
  \A a \in Assets :
    LET entries == ledger[a] IN
    /\ Len(entries) <= schedule[a].life
    /\ \A i \in 1..Len(entries) :
         /\ entries[i].month = schedule[a].start + i - 1
         /\ entries[i].opening = IF i = 1 THEN schedule[a].cost ELSE entries[i-1].closing
         /\ entries[i].closing = entries[i].opening - entries[i].amount
         /\ entries[i].accumulated = schedule[a].cost - entries[i].closing
         /\ entries[i].closing >= schedule[a].residual
    /\ asset[a].status # "DRAFT" =>
         asset[a].value = BookValue(a) /\ asset[a].accumulated = asset[a].cost - BookValue(a)

\* The schedule goes on describing its asset: no later edit of the register moves the cost,
\* residual value, life or start month from under a schedule that is being posted.
ScheduleKeepsBasis ==
  \A a \in Assets :
    schedule[a].status # "ABSENT" =>
      /\ schedule[a].cost = asset[a].cost /\ schedule[a].residual = asset[a].residual
      /\ schedule[a].life = asset[a].life /\ schedule[a].start = asset[a].start
      /\ schedule[a].base = asset[a].cost - asset[a].residual

\* A disposal derecognized what the ledger still says: no entry was posted for the asset
\* between its snapshot and now (complete_disposal against post_depreciation).
DisposalTakesLedgerBalance ==
  \A a \in Assets :
    asset[a].status = "DISPOSED" =>
      /\ snapshot[a].carrying = BookValue(a)
      /\ snapshot[a].accumulated = asset[a].cost - BookValue(a)

\* The books only grow: an entry, once posted, stays as it is, is never added to a period
\* that is not open, and a period closes for good (docs/business-rules.md:65,67).
BooksAreFinal ==
  [][/\ \A m \in Months : period[m] = "CLOSED" => period'[m] = "CLOSED"
     /\ \A a \in Assets :
          /\ Len(ledger'[a]) >= Len(ledger[a])
          /\ \A i \in 1..Len(ledger'[a]) :
               IF i <= Len(ledger[a]) THEN ledger'[a][i] = ledger[a][i]
                                      ELSE period[ledger'[a][i].month] = "OPEN"]_books

\* A schedule that was posted to its end leaves at most half a cent per month behind.
RemainderIsBounded ==
  \A a \in Assets :
    schedule[a].status = "COMPLETE" =>
      2 * (schedule[a].base - asset[a].accumulated) <= schedule[a].life

\* A schedule is posted as its plan says: an active one has an amount left for each of the
\* months it has left (docs/business-rules.md:63 "The schedule spans one period per
\* useful-life month."), and a complete one has nothing left to depreciate (:64 "The final
\* posting absorbs rounding remainder so accumulated depreciation reaches capitalized cost
\* less residual value exactly.").
ScheduleFollowsPlan ==
  \A a \in Assets :
    /\ schedule[a].status = "ACTIVE" => Depreciable(schedule[a], PriorAccumulated(a))
    /\ schedule[a].status = "COMPLETE" => asset[a].accumulated = schedule[a].base
=============================================================================
