---------------------------- MODULE LedgerReports ---------------------------
(***************************************************************************)
(* The reports of the general ledger: buildLedgerReports (LedgerReports.   *)
(* mjs), which financialReports reads in one transaction, and the trial    *)
(* balance of AccountingService. A report is a function of the stores that *)
(* Ledger's commands write; its rows are indexed by the account's code.    *)
(***************************************************************************)
EXTENDS Ledger

\* No date given, on either side of a filter.
NoDate == -1

\* A filter the view can send: of a period that exists, and not back to front.
Filters ==
  {f \in [period: PeriodIds \cup {None}, from: Dates \cup {NoDate}, to: Dates \cup {NoDate}] :
     /\ f.period # None => period[f.period].status # "absent"
     /\ f.from # NoDate /\ f.to # NoDate => f.from <= f.to}

\* Mutant: the last day of the filter is left out.
PostedBefore(f) == {j \in JournalIds : Posted(j) /\ (f.to # NoDate => journal[j].date < f.to)}

PostedUpTo(f) == {j \in JournalIds : Posted(j) /\ (f.to # NoDate => journal[j].date <= f.to)}

Selected(f) ==
  {j \in PostedUpTo(f) : /\ f.period # None => journal[j].period = f.period
                         /\ f.from # NoDate => journal[j].date >= f.from}

\* The lines of journals, told apart by journal and place.
LinesIn(js) ==
  UNION {{[id |-> <<j, i>>, account |-> journal[j].lines[i].account,
           amount |-> journal[j].lines[i].amount] : i \in DOMAIN journal[j].lines} : j \in js}

\* The debit and the credit turnover of each account in a set of lines.
TurnoverOf(lines) ==
  LET side(a, sign) ==
        SumFunction([line \in {l \in lines : l.account = a /\ sign * l.amount > 0} |->
                       sign * line.amount])
  IN  [a \in {line.account : line \in lines} |->
         [debit |-> side(a, 1), credit |-> side(a, -1)]]

Turnover(js) == TurnoverOf(LinesIn(js))

SumRows(rows) ==
  [debit  |-> SumFunction([a \in DOMAIN rows |-> rows[a].debit]),
   credit |-> SumFunction([a \in DOMAIN rows |-> rows[a].credit])]

TypeOf(a) == (CHOOSE row \in chart : row.code = a).type

\* The debit balance of the accounts of a type.
BalanceOf(rows, type) ==
  SumFunction([a \in {b \in DOMAIN rows : TypeOf(b) = type} |-> rows[a].debit - rows[a].credit])

ComputePL(rows) ==
  LET revenue == -BalanceOf(rows, "revenue")
      expenses == BalanceOf(rows, "expense")
  IN  [revenue |-> revenue, expenses |-> expenses, netProfit |-> revenue - expenses]

BalanceSheet(cumulative) ==
  LET assets == BalanceOf(cumulative, "asset")
      liabilities == -BalanceOf(cumulative, "liability")
      equityWithProfit == ComputePL(cumulative).netProfit - BalanceOf(cumulative, "equity")
  IN  [assets |-> assets, liabilities |-> liabilities, equityWithProfit |-> equityWithProfit,
       difference |-> assets - liabilities - equityWithProfit]

(* financialReports: the turnover and the profit of what the filter        *)
(* selects, and the balance sheet of everything posted up to its last day. *)
BuildReports(f) ==
  LET trial == Turnover(Selected(f))
      cumulative == Turnover(PostedUpTo(f))
  IN  [trial |-> trial, totals |-> SumRows(trial), profitLoss |-> ComputePL(trial),
       balanceSheet |-> BalanceSheet(cumulative), cumulativeTotals |-> SumRows(cumulative)]

(* trialBalance: the accounts of the chart that moved in the period.       *)
TrialBalance(p) ==
  LET rows == Turnover({j \in JournalIds : Posted(j) /\ journal[j].period = p})
  IN  [a \in {row.code : row \in chart} \cap DOMAIN rows |-> rows[a]]

Whole == [period |-> None, from |-> NoDate, to |-> NoDate]
OfPeriod(p) == [Whole EXCEPT !.period = p]
Existing == {p \in PeriodIds : period[p].status # "absent"}

-----------------------------------------------------------------------------
(* Whatever was drafted, edited, posted and reversed, no filter makes the  *)
(* report refuse the books as unbalanced (LedgerReports.mjs:30): a filter  *)
(* takes whole journals, and its balance sheet balances on every last day. *)
EveryReportBalances ==
  \A f \in Filters :
    LET r == BuildReports(f)
    IN  /\ r.totals.debit = r.totals.credit
        /\ r.cumulativeTotals.debit = r.cumulativeTotals.credit
        /\ r.balanceSheet.difference = 0

(* The balance sheet and the profit are cut from the books by different    *)
(* rules, one cumulative and one filtered: all the same, the equity at the *)
(* end of a period is that of the day before it began, the period's profit *)
(* and what was booked on equity itself (ledger-reports.test.mjs:26).      *)
EquityGrowsByProfit ==
  \A p \in Existing :
    LET before == BuildReports([Whole EXCEPT !.to = period[p].start - 1])
        after == BuildReports([OfPeriod(p) EXCEPT !.to = period[p].end])
    IN  after.balanceSheet.equityWithProfit =
          before.balanceSheet.equityWithProfit + after.profitLoss.netProfit
          - BalanceOf(after.trial, "equity")

(* A period, its dates and the trial balance of the other tab tell the     *)
(* same figures, although one goes by the period a journal names and the   *)
(* other by its date.                                                      *)
PeriodByDates ==
  \A p \in Existing :
    LET named == BuildReports(OfPeriod(p))
        dated == BuildReports([period |-> None, from |-> period[p].start, to |-> period[p].end])
    IN  /\ named.trial = dated.trial
        /\ named.profitLoss = dated.profitLoss
        /\ named.trial = TrialBalance(p)

(* The profits of the periods add up to the profit of the books, those of  *)
(* a period whose sales were given back in it included.                    *)
ProfitAddsUp ==
  BuildReports(Whole).profitLoss.netProfit
    = SumFunction([p \in Existing |-> BuildReports(OfPeriod(p)).profitLoss.netProfit])

(* The reports agree with each other, on every filter the view can send.   *)
ReportsAgree == EveryReportBalances /\ EquityGrowsByProfit /\ PeriodByDates /\ ProfitAddsUp

(* What was reported of a closed period stays so: later commands, and a    *)
(* reversal of one of its journals, leave its figures alone.               *)
ClosedReportFrozen ==
  [][\A p \in PeriodIds : period[p].status = "closed" => TrialBalance(p)' = TrialBalance(p)]_vars
=============================================================================
