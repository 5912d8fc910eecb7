---------------------------- MODULE SalesReports ----------------------------
(***************************************************************************)
(* The report page: four tabs computed by ReportController from the rows   *)
(* of invoices, products and expenses, for one period, and the page that   *)
(* shows and prints them.  A period is a set of days; which days a button  *)
(* stands for is module Calendar.                                          *)
(*                                                                         *)
(* Each tab is loaded by its own await, a refresh loads all four twice     *)
(* (once itself, once in render) and refreshes overlap when the user picks *)
(* another period before the last one is shown.  currentFilter is one      *)
(* object: a query reads it after its await, so it reads the period of the *)
(* moment and not the one it was asked for.                                *)
(***************************************************************************)
EXTENDS Integers, Sequences, FiniteSets, FiniteSetsExt, SequencesExt

CONSTANTS
  Contacts, Products,
  Days,                 \* days on which documents are dated
  Periods,              \* sets of days that the period buttons stand for
  MaxDocs,              \* bound: documents and expenses saved
  MaxRefreshes,         \* bound: refreshes under way at once
  Impatient,            \* the user types dates while a refresh is under way
  None

\* What the constants must be; the module that instantiates this one assumes it.
BoundsAssumption ==
  /\ MaxDocs \in Nat /\ MaxRefreshes \in Nat /\ Impatient \in BOOLEAN
  /\ Periods \subseteq SUBSET Days

VARIABLES
  invoices,             \* rows of invoices
  expenses,             \* rows of expenses
  buyPrice,             \* buyPrice of each product
  filter,               \* currentFilter: the period it stands for
  custom,               \* its preset is 'custom'
  typed,                \* how many of its two dates are given
  tab,                  \* currentTab
  cache,                \* for each tab, the period its figures are of
  refreshes,            \* for each refresh under way, the queries it has left
  page,                 \* what the page shows: the period it names, the tab, the figures' period
  printed               \* the same of the last print

documents == <<invoices, expenses, buyPrice>>
view == <<filter, custom, typed, tab, cache, refreshes, page, printed>>
vars == <<documents, view>>

Tabs == <<"pl", "sales", "products", "customers">>

-----------------------------------------------------------------------------
(* Documents.  An invoice has one line, of one piece for 2.                *)

Price == 2
Kinds == {"sale", "sale_return", "purchase"}

LineTotal(inv) == Price - inv.lineDiscount
Subtotal(inv) == LineTotal(inv)
GrandTotal(inv) == Subtotal(inv) - inv.discount + inv.vat
Paid(inv) == IF inv.cash THEN GrandTotal(inv) ELSE 0
Remaining(inv) == GrandTotal(inv) - Paid(inv)

Invoice == [kind : Kinds, pre : BOOLEAN, contact : Contacts, product : Products,
            lineDiscount : {0, 2}, discount : 0 .. 1, vat : 0 .. 1, cash : BOOLEAN, day : Days]

\* What the form lets through: the discount is clipped to the lines.
Savable(inv) == inv.discount <= Subtotal(inv) /\ (inv.vat = 1 => Subtotal(inv) > 0)

SaveInvoice(inv) ==
  /\ Cardinality(invoices) + Cardinality(expenses) < MaxDocs /\ Savable(inv)
  /\ invoices' = invoices \cup {inv}
  /\ UNCHANGED <<expenses, buyPrice, view>>

SaveExpense(kind, day) ==
  /\ Cardinality(invoices) + Cardinality(expenses) < MaxDocs
  /\ expenses' = expenses \cup {[kind |-> kind, amount |-> 1, day |-> day]}
  /\ UNCHANGED <<invoices, buyPrice, view>>

\* The price of a product changes; the cost of past sales is read from it.
Reprice(product) ==
  /\ buyPrice' = [buyPrice EXCEPT ![product] = 3 - @]
  /\ UNCHANGED <<invoices, expenses, view>>

-----------------------------------------------------------------------------
(* The figures                                                             *)

Sum(rows, Amount(_)) == MapThenSumSet(Amount, rows)

Sales(period) == {i \in invoices : i.kind = "sale" /\ ~i.pre /\ i.day \in period}
Returns(period) == {i \in invoices : i.kind = "sale_return" /\ ~i.pre /\ i.day \in period}
Spent(kind, period) == Sum({e \in expenses : e.kind = kind /\ e.day \in period}, LAMBDA e : e.amount)

CostOf(inv) == buyPrice[inv.product]
NetCost(period) == Sum(Sales(period), CostOf) - Sum(Returns(period), CostOf)

ProfitLoss(period) ==
  LET gross == Sum(Sales(period), Subtotal)
      discounts == Sum(Sales(period), LAMBDA i : i.discount)
      returns == Sum(Returns(period), Subtotal)
      net == gross - discounts - returns
      cogs == IF NetCost(period) < 0 THEN 0 ELSE NetCost(period)
      income == Spent("income", period)
      expense == Spent("expense", period)
  IN [grossSales |-> gross, salesDiscounts |-> discounts, returnsAmount |-> returns,
      netSales |-> net, cogs |-> cogs, grossProfit |-> net - cogs,
      operatingExpenses |-> expense, otherIncome |-> income,
      netProfit |-> net - cogs - expense + income,
      invoiceCount |-> Cardinality(Sales(period)), returnCount |-> Cardinality(Returns(period))]

\* Number(it.lineTotal) || qty * price
LineSales(inv) == IF LineTotal(inv) # 0 THEN LineTotal(inv) ELSE Price

\* Mutant: pre-invoices are customers' sales.
CustomerOfAll(contact, period) ==
  LET sales == {i \in invoices : i.kind = "sale" /\ i.contact = contact /\ i.day \in period}
  IN [contact |-> contact, totalInvoices |-> Cardinality(sales),
      totalSales |-> Sum(sales, GrandTotal), totalPaid |-> Sum(sales, Paid),
      totalRemaining |-> Sum(sales, Remaining), totalReturns |-> 0]

\* A row of the customers' tab.
CustomerRow(contact, period) ==
  LET sales == {i \in Sales(period) : i.contact = contact}
      returns == {i \in Returns(period) : i.contact = contact}
  IN [contact |-> contact, totalInvoices |-> Cardinality(sales),
      totalSales |-> Sum(sales, GrandTotal), totalPaid |-> Sum(sales, Paid),
      totalRemaining |-> Sum(sales, Remaining), totalReturns |-> Sum(returns, GrandTotal)]

CustomerReport(period) ==
  {CustomerRow(i.contact, period) : i \in {j \in invoices : ~j.pre /\ j.day \in period}}

Sold(product, period) == {i \in Sales(period) : i.product = product}

ProductRow(product, period) ==
  LET lines == Sold(product, period)
  IN [product |-> product, qty |-> Cardinality(lines), totalSales |-> Sum(lines, LineSales),
      cogs |-> Sum(lines, CostOf), profit |-> Sum(lines, LineSales) - Sum(lines, CostOf)]

ProductProfitability(period) == {ProductRow(i.product, period) : i \in Sales(period)}

\* The tab of sales: the ten best products and customers, here all of them.
SalesAnalysis(period) ==
  [products |-> {ProductRow(i.product, period) : i \in Sales(period)},
   customers |-> {[contact |-> c, invoiceCount |-> Cardinality({i \in Sales(period) : i.contact = c}),
                   totalSales |-> Sum({i \in Sales(period) : i.contact = c}, GrandTotal)]
                    : c \in {i.contact : i \in Sales(period)}},
   invoiceCount |-> Cardinality(Sales(period))]

\* The tiles over the tabs of products and of customers.
ProductTiles(period) ==
  [count |-> Cardinality(ProductProfitability(period)),
   sales |-> Sum(ProductProfitability(period), LAMBDA r : r.totalSales),
   profit |-> Sum(ProductProfitability(period), LAMBDA r : r.profit)]
CustomerTiles(period) ==
  [count |-> Cardinality(CustomerReport(period)),
   sales |-> Sum(CustomerReport(period), LAMBDA r : r.totalSales),
   remaining |-> Sum(CustomerReport(period), LAMBDA r : r.totalRemaining)]

\* What the tabs show and the print repeats: the statement, line by line with
\* its signs, and the rows of the tables.
StatementTab(period) ==
  LET pl == ProfitLoss(period)
  IN <<pl.grossSales, -pl.salesDiscounts, -pl.returnsAmount, pl.netSales, -pl.cogs,
       pl.grossProfit, -pl.operatingExpenses, pl.otherIncome, pl.netProfit>>

\* _buildPrintContent
PrintContent(period) ==
  LET pl == ProfitLoss(period)
  IN [statement |-> <<pl.grossSales, -pl.salesDiscounts, -pl.returnsAmount, pl.netSales, -pl.cogs,
                      pl.grossProfit, -pl.operatingExpenses, pl.otherIncome, pl.netProfit>>,
      sales |-> [products |-> {[product |-> r.product, sales |-> r.totalSales] : r \in SalesAnalysis(period).products},
                 customers |-> {[contact |-> r.contact, sales |-> r.totalSales] : r \in SalesAnalysis(period).customers}],
      products |-> {[product |-> r.product, sales |-> r.totalSales, cogs |-> r.cogs, profit |-> r.profit]
                      : r \in ProductProfitability(period)},
      customers |-> {[contact |-> r.contact, count |-> r.totalInvoices, sales |-> r.totalSales,
                      paid |-> r.totalPaid, remaining |-> r.totalRemaining] : r \in CustomerReport(period)}]

\* The tiles of the dashboard over all days.
DashboardTiles ==
  LET sales == {i \in invoices : i.kind = "sale" /\ ~i.pre}
      unpaid == {i \in sales : Remaining(i) > 0}
  IN [totalSales |-> Sum(sales, GrandTotal), count |-> Cardinality(sales),
      totalUnpaid |-> Sum(unpaid, Remaining)]

-----------------------------------------------------------------------------
(* The page                                                                *)

\* _getRange runs after the rows are loaded, on the shared currentFilter.
PeriodRead(refresh) == filter

Refresh(period) ==
  /\ Len(refreshes) < MaxRefreshes
  /\ refreshes' = Append(refreshes, [left |-> 8, asked |-> period])

\* _setPreset: a period clears the dates; 'custom' has those that are there, which
\* are none, and mean all days, unless it was pressed already.
SetPreset(period, isCustom) ==
  /\ isCustom => period = IF custom THEN filter ELSE Days
  /\ filter' = period /\ custom' = isCustom
  /\ typed' = IF isCustom /\ custom THEN typed ELSE 0
  /\ Refresh(period)
  /\ UNCHANGED <<tab, cache, page, printed, documents>>

\* _setCustomDate: a date is typed or taken out, and nothing is loaded.
TypeDate(period, n) ==
  /\ custom /\ (refreshes = <<>> \/ Impatient)
  /\ n \in typed - 1 .. typed + 1 /\ (n = 0 => period = Days)
  /\ filter' = period /\ typed' = n
  /\ UNCHANGED <<custom, tab, cache, refreshes, page, printed, documents>>

\* _applyCustom
Apply ==
  /\ custom /\ typed = 2 /\ Refresh(filter)
  /\ UNCHANGED <<filter, custom, typed, tab, cache, page, printed, documents>>

\* A query of a refresh ends: its tab has figures of the period of the moment.
Query(i) ==
  /\ refreshes[i].left > 0
  /\ LET loaded == Tabs[((8 - refreshes[i].left) % 4) + 1]
     IN cache' = [cache EXCEPT ![loaded] = PeriodRead(refreshes[i])]
  /\ refreshes' = [refreshes EXCEPT ![i].left = @ - 1]
  /\ UNCHANGED <<filter, custom, typed, tab, page, printed, documents>>

\* innerHTML of the page, after the last query
Show(i) ==
  /\ refreshes[i].left = 0
  /\ page' = [names |-> cache["pl"], tab |-> tab, figures |-> cache[tab]]
  /\ refreshes' = RemoveAt(refreshes, i)
  /\ UNCHANGED <<filter, custom, typed, tab, cache, printed, documents>>

\* _switchTab renders the tab from the cache, under the heading as it was.
SwitchTab(t) ==
  /\ page # None
  /\ tab' = t
  /\ page' = [page EXCEPT !.tab = t, !.figures = cache[t]]
  /\ UNCHANGED <<filter, custom, typed, cache, refreshes, printed, documents>>

\* _printReport prints from the cache.
PrintReport ==
  /\ page # None
  /\ printed' = [names |-> cache["pl"], tab |-> tab, figures |-> cache[tab]]
  /\ UNCHANGED <<filter, custom, typed, tab, cache, refreshes, page, documents>>

-----------------------------------------------------------------------------
Init ==
  /\ invoices = {} /\ expenses = {} /\ buyPrice = [p \in Products |-> 1]
  /\ filter = Days /\ custom = FALSE /\ typed = 0 /\ tab = "pl" /\ printed = None
  /\ cache = [t \in ToSet(Tabs) |-> Days]
  /\ refreshes = <<>> /\ page = [names |-> Days, tab |-> "pl", figures |-> Days]

NextDocument ==
  \/ \E inv \in Invoice : SaveInvoice(inv)
  \/ \E kind \in {"income", "expense"}, day \in Days : SaveExpense(kind, day)
  \/ \E product \in Products : Reprice(product)

NextView ==
  \/ \E period \in Periods, isCustom \in BOOLEAN : SetPreset(period, isCustom)
  \/ \E period \in Periods, n \in 0 .. 2 : TypeDate(period, n)
  \/ Apply
  \/ \E i \in DOMAIN refreshes : Query(i) \/ Show(i)
  \/ \E t \in ToSet(Tabs) : SwitchTab(t)
  \/ PrintReport

\* The figures are functions of the documents and the page never writes them,
\* so each half is checked by itself.
FiguresSpec == Init /\ [][NextDocument]_vars
ViewSpec == Init /\ [][NextView]_vars

-----------------------------------------------------------------------------
(* Properties                                                              *)

\* The rows are of their types.
TypeOK ==
  /\ invoices \subseteq Invoice /\ buyPrice \in [Products -> 1 .. 2]
  /\ filter \in SUBSET Days /\ typed \in 0 .. 2 /\ cache \in [ToSet(Tabs) -> SUBSET Days]
  /\ \A i \in DOMAIN refreshes : refreshes[i].left \in 0 .. 8

\* Three tabs and the dashboard count and sum the same sales: what customers
\* bought, paid and owe adds up to what was sold, in every period.
CustomersFoot ==
  \A period \in Periods :
    LET rows == CustomerReport(period)
    IN /\ Sum(rows, LAMBDA r : r.totalInvoices) = ProfitLoss(period).invoiceCount
       /\ Sum(SalesAnalysis(period).customers, LAMBDA r : r.invoiceCount) = SalesAnalysis(period).invoiceCount
       /\ CustomerTiles(period).sales = Sum(SalesAnalysis(period).customers, LAMBDA r : r.totalSales)
       /\ \A r \in rows : r.totalPaid + r.totalRemaining = r.totalSales
       /\ period = Days => CustomerTiles(period).sales = DashboardTiles.totalSales
                             /\ CustomerTiles(period).remaining = DashboardTiles.totalUnpaid

\* The statement foots line by line, returns without a sale in the period and
\* the cut of a negative cost included.
StatementFoots ==
  \A line \in {StatementTab(period) : period \in Periods} :
    /\ line[4] = line[1] + line[2] + line[3]
    /\ line[6] = line[4] + line[5]
    /\ line[9] = line[6] + line[7] + line[8]

\* The rows of a print add up to the tiles over the tabs it prints.
PrintIsTheTabs ==
  \A period \in Periods :
    \E print \in {PrintContent(period)} :
      /\ Sum(print.customers, LAMBDA r : r.sales) = CustomerTiles(period).sales
      /\ Sum(print.products, LAMBDA r : r.profit) = ProductTiles(period).profit

\* The cost of the sales of all products is the cost of sales of the profit and
\* loss tab, as long as nothing came back.
CostsFoot ==
  \A period \in Periods :
    Returns(period) = {} =>
      Sum(ProductProfitability(period), LAMBDA r : r.cogs) = ProfitLoss(period).cogs

\* When nothing is loading, the page shows the period whose button is pressed,
\* however many periods were picked and in whatever order their queries ended.
QuietShowsFilter ==
  refreshes = <<>> /\ ~custom => page.names = filter /\ page.figures = filter

\* When nothing is loading, the figures are of the period over them.
QuietNamesItsFigures ==
  refreshes = <<>> => page.figures = page.names

=============================================================================
