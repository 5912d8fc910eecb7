--------------------------- MODULE RetailPosting ---------------------------
(***************************************************************************)
(* Commercial posting: RetailPostingService.js. An invoice, a receipt or   *)
(* payment, an expense, a cheque, a stock transfer and a stocktake each    *)
(* post their journal, treasury rows, stock movements and balances in one  *)
(* transaction over FINANCE_STORES, which aborts as a whole when it throws:*)
(* a command is one action, guarded by everything that would throw.        *)
(*                                                                         *)
(* The company is one whose integrated accounting is enabled: activate()   *)
(* has checked that the accounts of LEDGER_CODES are postable leaves, and  *)
(* module Ledger shows that accounts with lines remain so. Left out: the   *)
(* contact of a document (a return must name that of its original),        *)
(* invoice numbers, who may run a command, document_corrections (one row   *)
(* per return and refund) and wording.                                     *)
(***************************************************************************)
EXTENDS RetailFinanceCore, SequencesExt

CONSTANTS InvoiceIds, ExpenseIds, ChequeIds, StocktakeIds, TransferIds,
          CashAccounts,  \* treasury accounts, each with its subledger of 101
          Warehouses,
          Products,      \* goods with tracked inventory
          Services,      \* items without
          Periods, Dates,
          PeriodOf,      \* the fiscal period of a date
          InvoiceForms,  \* what an invoice may ask for, see Form
          CashAmounts,   \* amounts of receipts, payments, expenses and cheques
          Quantities,    \* quantities moved or counted, in units
          UnitCosts,     \* unit costs a counter may enter
          QtyScale,      \* QTY_SCALE: units per whole quantity
          MaxTreasury,   \* bound on the treasury rows
          None           \* an absent reference

OriginalKinds == {"sale", "non_formal", "purchase"}
ReturnKinds == {"sale_return", "purchase_return"}

ValidOriginals(kind) ==
  IF kind = "sale_return" THEN {"sale", "non_formal"} ELSE {"purchase"}

\* INVOICE_DIRECTIONS
Direction(kind) == IF kind \in {"purchase", "sale_return"} THEN "in" ELSE "out"

\* The direction of the money that settles an invoice.
SettledBy(kind) ==
  IF kind \in {"sale", "non_formal", "purchase_return"} THEN "receipt" ELSE "payment"

\* An invoice as assertInvoiceTotals accepts it.
Form == [kind: OriginalKinds \cup ReturnKinds,
         items: Seq([item: Products \cup Services, units: Nat, total: Nat]),
         discount: Nat, vat: Nat, paid: Nat]

Totals(items) == [k \in DOMAIN items |-> items[k].total]
Net(form) == SumFunction(Totals(form.items)) - form.discount
Grand(form) == Net(form) + form.vat

\* The accounts of LEDGER_CODES, but 101, which the subledgers stand for.
ControlAccounts ==
  {"receivable", "inventory", "inputVat", "chequeIn", "payable", "outputVat",
   "chequeOut", "revenue", "otherRevenue", "cogs", "expense", "variance"}

ASSUME RetailAssumption ==
  /\ \A form \in InvoiceForms :
       /\ form \in Form /\ form.items # <<>>
       /\ \A k \in DOMAIN form.items : form.items[k].units > 0
       /\ Net(form) >= 0 /\ form.paid <= Grand(form)
  /\ PeriodOf \in [Dates -> Periods] /\ Dates \subseteq Nat
  /\ CashAmounts \subseteq Nat \ {0} /\ Quantities \subseteq Nat /\ UnitCosts \subseteq Nat
  /\ Products \cap Services = {} /\ QtyScale \in Nat \ {0}
  /\ IsFiniteSet(Products) /\ IsFiniteSet(Warehouses)
  \* A uid is drawn once, and no reference is None.
  /\ InvoiceIds \cap TransferIds = {} /\ InvoiceIds \cap StocktakeIds = {}
  /\ TransferIds \cap StocktakeIds = {}
  /\ None \notin {"invoice", "expense", "cheque"} \X (InvoiceIds \cup ExpenseIds \cup ChequeIds)
  /\ None \notin InvoiceIds \cup CashAccounts
  \* The subledgers of 101 are accounts of their own.
  /\ CashAccounts \cap ControlAccounts = {}

Accounts == ControlAccounts \cup CashAccounts

VARIABLES journals,   \* posted journal_entries with the net debit per account
          invoices,   \* invoices with their items and paidAmount
          treasury,   \* the treasury transactions, and settlements by reference
          expenses,   \* the posted expenses
          cheques,
          stock,      \* inventory_balances per warehouse and product
          movements,  \* stock_movements, listed under the document they refer to
          stocktakes, \* stocktakes with their stocktake_lines
          closed      \* the closed fiscal periods

vars == <<journals, invoices, treasury, expenses, cheques, stock, movements,
          stocktakes, closed>>

money == <<treasury, expenses, cheques>>
goods == <<stock, movements, stocktakes>>

NoInvoice == [kind |-> "none", orig |-> None, date |-> 0, warehouse |-> None,
              items |-> <<>>, grand |-> 0, paid |-> 0]

NoCheque == [status |-> "absent", direction |-> "none", amount |-> 0, issued |-> 0,
             settled |-> 0, account |-> None]

NoStocktake == [status |-> "absent", warehouse |-> None, date |-> 0, lines |-> <<>>]

Documents == InvoiceIds \cup TransferIds \cup StocktakeIds

-----------------------------------------------------------------------------
(* context and journal                                                     *)

\* Mutant: the period of the date is not looked at.
OpenForever(d) == TRUE

Open(d) == PeriodOf[d] \notin closed

Line(account, amount) == [account |-> account, amount |-> amount]

\* postLine drops a line without an amount; validateJournal wants two lines.
Postable(lines) ==
  /\ Cardinality({k \in DOMAIN lines : lines[k].amount # 0}) >= 2
  /\ SumFunction([k \in DOMAIN lines |-> lines[k].amount]) = 0

Entry(lines) ==
  [a \in Accounts |->
     SumFunction([k \in {k \in DOMAIN lines : lines[k].account = a} |-> lines[k].amount])]

Posting(kind, id, d, lines) == [source |-> <<kind, id>>, date |-> d, entry |-> Entry(lines)]

\* The sourceKey index of journal_entries.
Unposted(kind, id) == \A j \in journals : j.source # <<kind, id>>

Journal(kind, id, d, lines) ==
  /\ Open(d) /\ Postable(lines) /\ Unposted(kind, id)
  /\ journals' = journals \cup {Posting(kind, id, d, lines)}

\* The balance of an account in the trial balance, debits positive.
Balance(account) == SumFunction([j \in journals |-> j.entry[account]])

-----------------------------------------------------------------------------
(* Returns and settlements                                                 *)

Returns(o) == {r \in InvoiceIds : invoices[r].kind \in ReturnKinds /\ invoices[r].orig = o}

ReturnedGross(o) == SumFunction([r \in Returns(o) |-> invoices[r].grand])
Refunded(o) == SumFunction([r \in Returns(o) |-> invoices[r].paid])
NetTotal(o) == invoices[o].grand - ReturnedGross(o)

Units(items, item) ==
  SumFunction([k \in {k \in DOMAIN items : items[k].item = item} |-> items[k].units])

ReturnedUnits(o, item) ==
  SumFunction([r \in Returns(o) |-> Units(invoices[r].items, item)])

(* issueInvoice caps the returns of an invoice by amount and, for each     *)
(* item, by quantity.                                                      *)
ReturnAllowed(form, o) ==
  /\ invoices[o].kind \in ValidOriginals(form.kind)
  /\ form.paid = 0
  /\ ReturnedGross(o) + Grand(form) <= invoices[o].grand
  /\ \A k \in DOMAIN form.items :
       LET item == form.items[k].item
           base == Units(invoices[o].items, item)
       IN  base # 0 /\ ReturnedUnits(o, item) + Units(form.items, item) <= base

\* The invoice whose net total bounds what may be paid on i.
Reference(i) == IF invoices[i].kind \in ReturnKinds THEN invoices[i].orig ELSE i

\* Mutant: what was already handed back is forgotten.
AvailableAgain(i) ==
  LET o == Reference(i)
      beyond == invoices[o].paid - NetTotal(o)
  IN  IF i = o THEN -beyond ELSE IF beyond > 0 THEN beyond ELSE 0

(* recordCash: what may still be collected on an invoice after its returns,*)
(* or handed back on a return out of what was paid beyond the net total.   *)
Available(i) ==
  LET o == Reference(i)
      net == NetTotal(o)
      originalPaid == invoices[o].paid
  IN  IF i = o
      THEN net - originalPaid
      ELSE (IF originalPaid > net THEN originalPaid - net ELSE 0) - Refunded(o)

CanSettle(i, type, n) ==
  /\ invoices[i].kind # "none"
  /\ n <= invoices[i].grand - invoices[i].paid
  /\ type = SettledBy(invoices[i].kind)
  /\ NetTotal(Reference(i)) >= 0
  /\ n <= Available(i)

ControlAccount(kind) ==
  IF kind \in {"sale", "non_formal", "sale_return"} THEN "receivable" ELSE "payable"

CashLines(type, account, other, n) ==
  IF type = "receipt" THEN <<Line(account, n), Line(other, -n)>>
                      ELSE <<Line(other, n), Line(account, -n)>>

Transaction(type, account, n, ref, d) ==
  [type |-> type, amount |-> n, ref |-> ref, date |-> d,
   from |-> IF type = "receipt" THEN None ELSE account,
   to |-> IF type = "receipt" THEN account ELSE None]

\* The id of the next treasury row, a uid.
NextTx == Len(treasury) + 1

Record(transaction) ==
  /\ Len(treasury) < MaxTreasury
  /\ treasury' = Append(treasury, transaction)

-----------------------------------------------------------------------------
(* Stock                                                                   *)

\* An open stocktake blocks every other movement of its warehouse.
Counting(w) ==
  \E s \in StocktakeIds : stocktakes[s].status = "draft" /\ stocktakes[s].warehouse = w

Move(type, w, p, units, cost) ==
  [type |-> type, warehouse |-> w, product |-> p, units |-> units, cost |-> cost]

\* stock() stamps every movement of a command with the date of its context.
Dated(moves, d) ==
  [k \in DOMAIN moves |->
     [type |-> moves[k].type, warehouse |-> moves[k].warehouse, product |-> moves[k].product,
      units |-> moves[k].units, cost |-> moves[k].cost, date |-> d]]

MovesOf(moves, p) == {k \in DOMAIN moves : moves[k].product = p}
MovedUnits(moves, p) == SumFunction([k \in MovesOf(moves, p) |-> moves[k].units])
MovedCost(moves, p) == SumFunction([k \in MovesOf(moves, p) |-> moves[k].cost])

RestockedCost(o, p) == SumFunction([r \in Returns(o) |-> MovedCost(movements[r], p)])

\* Mutant: the last units are rounded like the others.
RestockRounded(o, items, booked, p, units) ==
  RoundDiv(MovedCost(movements[o], p) * units, MovedUnits(movements[o], p))

(* What returned units of a sale cost: their share of what the sale took   *)
(* out, and for the last ones all that is left of it. booked are the       *)
(* movements of the earlier lines of the same return.                      *)
RestockCost(o, items, booked, p, units) ==
  LET soldUnits == MovedUnits(movements[o], p)
      soldCost == MovedCost(movements[o], p)
      incoming == Units(items, p)
      completes == /\ ReturnedUnits(o, p) + incoming = soldUnits
                   /\ MovedUnits(booked, p) + units = incoming
  IN  IF completes
      THEN soldCost - RestockedCost(o, p) - MovedCost(booked, p)
      ELSE RoundDiv(soldCost * units, soldUnits)

\* What the lines come to once the discount is shared among them.
NetTotals(form) == AllocateDiscount(Totals(form.items), form.discount)

Fail(acc) == [acc EXCEPT !.ok = FALSE]

BookOut(acc, w, p, units) ==
  IF ~CanIssue(acc.balance[p], units) THEN Fail(acc)
  ELSE [ok |-> TRUE,
        balance |-> [acc.balance EXCEPT ![p] = IssueStock(@, units)],
        moves |-> Append(acc.moves, Move("out", w, p, units, IssueCost(acc.balance[p], units)))]

BookIn(acc, w, p, units, cost) ==
  IF cost < 0 THEN Fail(acc)
  ELSE [ok |-> TRUE,
        balance |-> [acc.balance EXCEPT ![p] = ReceiveStock(@, units, cost)],
        moves |-> Append(acc.moves, Move("in", w, p, units, cost))]

\* One line of an invoice, when the lines before it have booked acc.
BookLine(form, o, w, acc, k) ==
  LET p == form.items[k].item
      units == form.items[k].units
  IN  IF ~acc.ok \/ p \in Services THEN acc
      ELSE IF Direction(form.kind) = "out" THEN BookOut(acc, w, p, units)
      ELSE BookIn(acc, w, p, units,
                  IF form.kind = "purchase" THEN NetTotals(form)[k]
                  ELSE RestockCost(o, form.items, acc.moves, p, units))

(* The loop over the lines of an invoice: a line sees the balances and the *)
(* movements of the lines before it, and one that fails fails the invoice. *)
BookItems(form, o, w) ==
  LET booked[k \in 0 .. Len(form.items)] ==
        IF k = 0 THEN [ok |-> TRUE, balance |-> stock[w], moves |-> <<>>]
                 ELSE BookLine(form, o, w, booked[k - 1], k)
  IN  booked[Len(form.items)]

\* The journal of an invoice whose lines come to net and whose goods cost cost.
InvoiceLines(form, net, cost) ==
  LET serviceNet == SumFunction([k \in {k \in DOMAIN net : form.items[k].item \in Services}
                                   |-> net[k]])
      trackedNet == SumFunction(net) - serviceNet
      grand == Grand(form)
  IN  CASE form.kind \in {"sale", "non_formal"} ->
             <<Line("receivable", grand), Line("revenue", -Net(form)),
               Line("outputVat", -form.vat), Line("cogs", cost), Line("inventory", -cost)>>
        [] form.kind = "purchase" ->
             <<Line("inventory", trackedNet), Line("expense", serviceNet),
               Line("inputVat", form.vat), Line("payable", -grand)>>
        [] form.kind = "sale_return" ->
             <<Line("revenue", Net(form)), Line("outputVat", form.vat),
               Line("receivable", -grand), Line("inventory", cost), Line("cogs", -cost)>>
        [] form.kind = "purchase_return" ->
             <<Line("payable", grand), Line("inventory", -cost), Line("expense", -serviceNet),
               Line("inputVat", -form.vat), Line("variance", cost - trackedNet)>>

-----------------------------------------------------------------------------
Init ==
  /\ journals = {}
  /\ invoices = [i \in InvoiceIds |-> NoInvoice]
  /\ treasury = <<>>
  /\ expenses = {}
  /\ cheques = [c \in ChequeIds |-> NoCheque]
  /\ stock = [w \in Warehouses |-> [p \in Products |-> NoStock]]
  /\ movements = [doc \in Documents |-> <<>>]
  /\ stocktakes = [s \in StocktakeIds |-> NoStocktake]
  /\ closed = {}

\* The checks and the writes of issueInvoice, for the goods booked and the
\* lines of the journal.
WriteInvoice(i, form, o, w, d, account, booked, lines) ==
  LET invoice == Posting("invoice", i, d, lines)
      type == SettledBy(form.kind)
      payment == Posting("treasury", NextTx, d,
                   CashLines(type, account, ControlAccount(form.kind), form.paid))
  IN  /\ invoices[i].kind = "none" /\ Open(d)
      /\ IF form.kind \in ReturnKinds THEN o # None /\ ReturnAllowed(form, o) ELSE o = None
      /\ booked.ok
      /\ booked.moves # <<>> => ~Counting(w)
      /\ Postable(lines) /\ Unposted("invoice", i)
      /\ invoices' = [invoices EXCEPT ![i] =
           [kind |-> form.kind, orig |-> o, date |-> d, warehouse |-> w, items |-> form.items,
            grand |-> Grand(form), paid |-> form.paid]]
      /\ stock' = [stock EXCEPT ![w] = booked.balance]
      /\ movements' = [movements EXCEPT ![i] = Dated(booked.moves, d)]
      /\ \/ /\ form.paid = 0
            /\ journals' = journals \cup {invoice}
            /\ UNCHANGED treasury
         \/ /\ form.paid > 0
            /\ journals' = journals \cup {invoice, payment}
            /\ Record(Transaction(type, account, form.paid, <<"invoice", i>>, d))
      /\ UNCHANGED <<expenses, cheques, stocktakes, closed>>

(* issueInvoice: a final invoice is never rewritten. Its down payment goes *)
(* through recordCash in the same transaction, on a fresh invoice whose    *)
(* whole total is due.                                                     *)
IssueInvoice(i, form, o, w, d, account) ==
  LET booked == BookItems(form, o, w)
      cost == SumFunction([k \in DOMAIN booked.moves |-> booked.moves[k].cost])
  IN  WriteInvoice(i, form, o, w, d, account, booked, InvoiceLines(form, NetTotals(form), cost))

(* recordCash on an invoice: the settlement row, one per transaction, is   *)
(* the transaction's ref.                                                  *)
SettleInvoice(i, type, account, n, d) ==
  /\ CanSettle(i, type, n)
  /\ Journal("treasury", NextTx, d,
             CashLines(type, account, ControlAccount(invoices[i].kind), n))
  /\ Record(Transaction(type, account, n, <<"invoice", i>>, d))
  /\ invoices' = [invoices EXCEPT ![i].paid = @ + n]
  /\ UNCHANGED <<expenses, cheques, goods, closed>>

\* recordCash without an invoice: money on account.
CashOnAccount(type, account, n, d) ==
  /\ Journal("treasury", NextTx, d,
       CashLines(type, account, IF type = "receipt" THEN "receivable" ELSE "payable", n))
  /\ Record(Transaction(type, account, n, None, d))
  /\ UNCHANGED <<invoices, expenses, cheques, goods, closed>>

\* Mutant: the journal credits the receiving account.
TransferCashSwapped(from, to, n, d) ==
  /\ from # to
  /\ Journal("treasury", NextTx, d, <<Line(to, -n), Line(from, n)>>)
  /\ Record([type |-> "transfer", amount |-> n, ref |-> None, date |-> d,
             from |-> from, to |-> to])
  /\ UNCHANGED <<invoices, expenses, cheques, goods, closed>>

TransferCash(from, to, n, d) ==
  /\ from # to
  /\ Journal("treasury", NextTx, d, <<Line(to, n), Line(from, -n)>>)
  /\ Record([type |-> "transfer", amount |-> n, ref |-> None, date |-> d,
             from |-> from, to |-> to])
  /\ UNCHANGED <<invoices, expenses, cheques, goods, closed>>

PostTransaction(d) ==
  \E n \in CashAmounts, account \in CashAccounts :
    \/ \E type \in {"receipt", "payment"} :
         \/ \E i \in InvoiceIds : SettleInvoice(i, type, account, n, d)
         \/ CashOnAccount(type, account, n, d)
    \/ \E to \in CashAccounts : TransferCash(account, to, n, d)

\* The account is the default one of the moment, which may be any.
PostExpense(e, income, account, n, d) ==
  /\ e \notin expenses
  /\ Journal("expense", e, d,
       IF income THEN <<Line(account, n), Line("otherRevenue", -n)>>
                 ELSE <<Line("expense", n), Line(account, -n)>>)
  /\ expenses' = expenses \cup {e}
  /\ Record(Transaction(IF income THEN "receipt" ELSE "payment", account, n,
                        <<"expense", e>>, d))
  /\ UNCHANGED <<invoices, cheques, goods, closed>>

PostCheque(c, direction, n, d) ==
  /\ cheques[c].status = "absent"
  /\ Journal("cheque", c, d,
       IF direction = "inbound" THEN <<Line("chequeIn", n), Line("receivable", -n)>>
                                ELSE <<Line("payable", n), Line("chequeOut", -n)>>)
  /\ cheques' = [cheques EXCEPT ![c] =
       [NoCheque EXCEPT !.status = "pending", !.direction = direction,
                        !.amount = n, !.issued = d]]
  /\ UNCHANGED <<invoices, treasury, expenses, goods, closed>>

\* Mutant: the event may be dated before the cheque was issued.
MayChangeAnyDate(c, status, d) ==
  /\ cheques[c].status = "pending"
  /\ status = "spent" => cheques[c].direction = "inbound"

MayChange(c, status, d) ==
  /\ cheques[c].status = "pending"
  /\ status = "spent" => cheques[c].direction = "inbound"
  /\ cheques[c].issued <= d

\* The account opposite the cheque's own: the bank that clears it, the payable
\* that spending it settles, or the one its posting came from.
ChequeTarget(c, status, account) ==
  CASE status = "cleared" -> account
    [] status = "spent" -> "payable"
    [] OTHER -> IF cheques[c].direction = "inbound" THEN "receivable" ELSE "payable"

(* changeChequeStatus: clearing also moves money on the chosen account.    *)
ChangeChequeStatus(c, status, account, d) ==
  LET n == cheques[c].amount
      inbound == cheques[c].direction = "inbound"
      target == ChequeTarget(c, status, account)
  IN  /\ MayChange(c, status, d)
      /\ Journal("cheque_status", c, d,
           IF inbound THEN <<Line(target, n), Line("chequeIn", -n)>>
                      ELSE <<Line("chequeOut", n), Line(target, -n)>>)
      /\ cheques' = [cheques EXCEPT ![c].status = status, ![c].settled = d,
                       ![c].account = IF status = "cleared" THEN account ELSE None]
      /\ \/ /\ status = "cleared"
            /\ Record(Transaction(IF inbound THEN "receipt" ELSE "payment", account,
                                  n, <<"cheque", c>>, d))
         \/ status # "cleared" /\ UNCHANGED treasury
      /\ UNCHANGED <<invoices, expenses, goods, closed>>

TransferStock(t, from, to, p, units, d) ==
  LET cost == IssueCost(stock[from][p], units)
  IN  /\ from # to /\ movements[t] = <<>> /\ Open(d)
      /\ units > 0 /\ CanIssue(stock[from][p], units)
      /\ ~Counting(from) /\ ~Counting(to)
      /\ stock' = [stock EXCEPT ![from][p] = IssueStock(@, units),
                                ![to][p] = ReceiveStock(@, units, cost)]
      /\ movements' = [movements EXCEPT ![t] =
           Dated(<<Move("out", from, p, units, cost), Move("in", to, p, units, cost)>>, d)]
      /\ UNCHANGED <<journals, invoices, money, stocktakes, closed>>

-----------------------------------------------------------------------------
(* Stocktakes                                                              *)

Null == -1   \* countedUnits or unitCost before it is entered

\* A balance row exists once the product has moved in the warehouse.
HasBalance(w, p) ==
  \E doc \in Documents : \E k \in DOMAIN movements[doc] :
    movements[doc][k].warehouse = w /\ movements[doc][k].product = p

Expected(w, p) ==
  [units |-> stock[w][p].units, value |-> stock[w][p].value,
   counted |-> Null, unitCost |-> Null]

NewStocktake(s, w, d) ==
  /\ stocktakes[s].status = "absent" /\ Open(d)
  /\ ~Counting(w)
  /\ stocktakes' = [stocktakes EXCEPT ![s] =
       [status |-> "draft", warehouse |-> w, date |-> d,
        lines |-> [p \in {q \in Products : HasBalance(w, q)} |-> Expected(w, p)]]]
  /\ UNCHANGED <<journals, invoices, money, stock, movements, closed>>

\* A product without a line gets one, with the balance of the moment.
CountStocktake(s, p, units, unitCost) ==
  LET lines == stocktakes[s].lines
      old == IF p \in DOMAIN lines THEN lines[p] ELSE Expected(stocktakes[s].warehouse, p)
      new == [old EXCEPT !.counted = units,
                         !.unitCost = IF unitCost = Null THEN @ ELSE unitCost]
  IN  /\ stocktakes[s].status = "draft"
      /\ stocktakes' = [stocktakes EXCEPT ![s].lines =
           [q \in DOMAIN lines \cup {p} |-> IF q = p THEN new ELSE lines[q]]]
      /\ UNCHANGED <<journals, invoices, money, stock, movements, closed>>

Surplus(l) == l.counted - l.units

\* A surplus is valued at the cost entered, or at the average of the balance.
CanValue(l) == Surplus(l) > 0 => l.unitCost # Null \/ l.units > 0

SurplusCost(l) ==
  LET rate == IF l.unitCost # Null THEN l.unitCost ELSE RoundDiv(l.value * QtyScale, l.units)
  IN  RoundDiv(rate * Surplus(l), QtyScale)

More(lines) == {p \in DOMAIN lines : Surplus(lines[p]) > 0}
Less(lines) == {p \in DOMAIN lines : Surplus(lines[p]) < 0}

\* What the units cost that are missing of p, or that are too many.
LostCost(w, lines, p) == IssueCost(stock[w][p], -Surplus(lines[p]))

Increase(lines) == SumFunction([p \in More(lines) |-> SurplusCost(lines[p])])
Decrease(w, lines) == SumFunction([p \in Less(lines) |-> LostCost(w, lines, p)])

VarianceLines(increase, decrease) ==
  <<Line("inventory", increase), Line("variance", -increase),
    Line("variance", decrease), Line("inventory", -decrease)>>

\* The surpluses and the shortages of a count.
Adjustments(w, lines) ==
  {Move("in", w, p, Surplus(lines[p]), SurplusCost(lines[p])) : p \in More(lines)}
  \cup {Move("out", w, p, -Surplus(lines[p]), LostCost(w, lines, p)) : p \in Less(lines)}

Adjusted(balance, l) ==
  CASE Surplus(l) > 0 -> ReceiveStock(balance, Surplus(l), SurplusCost(l))
    [] Surplus(l) < 0 -> IssueStock(balance, -Surplus(l))
    [] OTHER -> balance

\* All that finalizeStocktake may throw at: the checks of the session and of
\* its lines, and those of its journal.
CanFinalize(s) ==
  LET w == stocktakes[s].warehouse
      lines == stocktakes[s].lines
      increase == Increase(lines)
      decrease == Decrease(w, lines)
  IN  /\ stocktakes[s].status = "draft" /\ Open(stocktakes[s].date)
      /\ lines # <<>>
      /\ \A p \in DOMAIN lines :
           /\ lines[p].counted # Null
           /\ stock[w][p] = [units |-> lines[p].units, value |-> lines[p].value]
           /\ CanValue(lines[p])
      /\ increase + decrease > 0 =>
           Postable(VarianceLines(increase, decrease)) /\ Unposted("stocktake", s)

(* finalizeStocktake adjusts the balances to the count, line by line, and  *)
(* posts the surpluses and the shortages in one journal, if there are any. *)
FinalizeStocktake(s) ==
  LET w == stocktakes[s].warehouse
      d == stocktakes[s].date
      lines == stocktakes[s].lines
      increase == Increase(lines)
      decrease == Decrease(w, lines)
  IN  /\ CanFinalize(s)
      /\ stock' = [stock EXCEPT ![w] = [p \in Products |->
           IF p \in DOMAIN lines THEN Adjusted(@[p], lines[p]) ELSE @[p]]]
      /\ movements' = [movements EXCEPT ![s] = Dated(SetToSeq(Adjustments(w, lines)), d)]
      /\ \/ /\ increase + decrease > 0
            /\ Journal("stocktake", s, d, VarianceLines(increase, decrease))
         \/ increase + decrease = 0 /\ UNCHANGED journals
      /\ stocktakes' = [stocktakes EXCEPT ![s].status = "posted"]
      /\ UNCHANGED <<invoices, money, closed>>

\* AccountingService.closePeriod: commercial journals are posted and balanced,
\* so only an open stocktake of the company stands in its way.
ClosePeriod(p) ==
  /\ p \notin closed
  /\ \A s \in StocktakeIds : stocktakes[s].status # "draft"
  /\ closed' = closed \cup {p}
  /\ UNCHANGED <<journals, invoices, money, goods>>

Next ==
  \/ \E d \in Dates :
       \/ \E i \in InvoiceIds, form \in InvoiceForms, o \in InvoiceIds \cup {None},
             w \in Warehouses, account \in CashAccounts :
            IssueInvoice(i, form, o, w, d, account)
       \/ PostTransaction(d)
       \/ \E e \in ExpenseIds, income \in BOOLEAN, account \in CashAccounts, n \in CashAmounts :
            PostExpense(e, income, account, n, d)
       \/ \E c \in ChequeIds, direction \in {"inbound", "outbound"}, n \in CashAmounts :
            PostCheque(c, direction, n, d)
       \/ \E c \in ChequeIds, status \in {"cleared", "bounced", "returned", "spent"},
             account \in CashAccounts :
            ChangeChequeStatus(c, status, account, d)
       \/ \E t \in TransferIds, from, to \in Warehouses, p \in Products, units \in Quantities :
            TransferStock(t, from, to, p, units, d)
       \/ \E s \in StocktakeIds, w \in Warehouses : NewStocktake(s, w, d)
  \/ \E s \in StocktakeIds, p \in Products, units \in Quantities,
        unitCost \in UnitCosts \cup {Null} : CountStocktake(s, p, units, unitCost)
  \/ \E s \in StocktakeIds : FinalizeStocktake(s)
  \/ \E p \in Periods : ClosePeriod(p)

Spec == Init /\ [][Next]_vars

-----------------------------------------------------------------------------
Stock == [units: Nat, value: Nat]

TypeOK ==
  /\ \A j \in journals : j.date \in Dates /\ j.entry \in [Accounts -> Int]
  /\ invoices \in [InvoiceIds ->
       [kind: {"none"} \cup OriginalKinds \cup ReturnKinds, orig: InvoiceIds \cup {None},
        date: Dates \cup {0}, warehouse: Warehouses \cup {None},
        items: {<<>>} \cup {form.items : form \in InvoiceForms}, grand: Nat, paid: Nat]]
  /\ Len(treasury) <= MaxTreasury
  /\ expenses \subseteq ExpenseIds
  /\ cheques \in [ChequeIds ->
       [status: {"absent", "pending", "cleared", "bounced", "returned", "spent"},
        direction: {"none", "inbound", "outbound"}, amount: {0} \cup CashAmounts,
        issued: Dates \cup {0}, settled: Dates \cup {0}, account: CashAccounts \cup {None}]]
  /\ stock \in [Warehouses -> [Products -> Stock]]
  /\ \A doc \in Documents : \A k \in DOMAIN movements[doc] : movements[doc][k].cost \in Nat
  /\ \A s \in StocktakeIds : stocktakes[s].status \in {"absent", "draft", "posted"}
  /\ closed \subseteq Periods

SumTreasury(test(_)) ==
  SumFunction([k \in {k \in DOMAIN treasury : test(treasury[k])} |-> treasury[k].amount])

SumCheques(direction, statuses) ==
  SumFunction([c \in {c \in ChequeIds : /\ cheques[c].direction = direction
                                        /\ cheques[c].status \in statuses}
                 |-> cheques[c].amount])

Due(kinds) ==
  SumFunction([i \in {i \in InvoiceIds : invoices[i].kind \in kinds}
                 |-> invoices[i].grand - invoices[i].paid])

(* The control accounts of the ledger equal what the documents say is due: *)
(* open invoices and returns, money on account and cheques in hand, after  *)
(* any order of invoices, returns, receipts, refunds and cheque events.    *)
ControlAccountsAgree ==
  /\ Balance("receivable") =
       Due({"sale", "non_formal"}) - Due({"sale_return"})
       - SumTreasury(LAMBDA t : t.type = "receipt" /\ t.ref = None)
       - SumCheques("inbound", {"pending", "cleared", "spent"})
  /\ Balance("payable") =
       Due({"purchase_return"}) - Due({"purchase"})
       + SumTreasury(LAMBDA t : t.type = "payment" /\ t.ref = None)
       + SumCheques("outbound", {"pending", "cleared"})
       + SumCheques("inbound", {"spent"})
  /\ Balance("chequeIn") = SumCheques("inbound", {"pending"})
  /\ Balance("chequeOut") = -SumCheques("outbound", {"pending"})

(* The ledger of every cash or bank account equals what the treasury list  *)
(* says went in and out of it (TreasuryController.getBalanceMap), although *)
(* receipts, expenses, cheques, transfers and down payments write the two  *)
(* from five places.                                                       *)
CashBookAgrees ==
  \A a \in CashAccounts :
    Balance(a) = SumTreasury(LAMBDA t : t.to = a) - SumTreasury(LAMBDA t : t.from = a)

(* An invoice is paid by exactly the transactions that settle it, and      *)
(* never beyond its total (INVOICE_SETTLEMENT_MISMATCH of reconciliation). *)
SettlementsAgree ==
  \A i \in InvoiceIds :
    /\ invoices[i].paid = SumTreasury(LAMBDA t : t.ref = <<"invoice", i>>)
    /\ invoices[i].paid <= invoices[i].grand

(* The ledger, the documents and the treasury list name the same money.    *)
MoneyAgrees == ControlAccountsAgree /\ CashBookAgrees /\ SettlementsAgree

(* A pending cheque has moved no money, a cleared one exactly its amount,  *)
(* once, in its direction, on the chosen account and day, and one that was *)
(* bounced, returned or endorsed none.                                     *)
ChequeEvidence ==
  \A c \in ChequeIds :
    LET moved == {k \in DOMAIN treasury : treasury[k].ref = <<"cheque", c>>}
    IN  IF cheques[c].status # "cleared"
        THEN moved = {}
        ELSE \E k \in moved :
               /\ moved = {k}
               /\ treasury[k].amount = cheques[c].amount
               /\ treasury[k].date = cheques[c].settled
               /\ cheques[c].issued <= cheques[c].settled
               /\ IF cheques[c].direction = "inbound"
                  THEN treasury[k].to = cheques[c].account
                  ELSE treasury[k].from = cheques[c].account

MovementRows == UNION {{doc} \X DOMAIN movements[doc] : doc \in Documents}
Movement(row) == movements[row[1]][row[2]]

\* Of some rows, those of product p into or out of warehouse w.
MovementsOf(rows, w, p, type) ==
  {row \in rows : /\ Movement(row).warehouse = w /\ Movement(row).product = p
                  /\ Movement(row).type = type}

UnitsMoved(rows, w, p, type) ==
  SumFunction([row \in MovementsOf(rows, w, p, type) |-> Movement(row).units])

ValueMoved(rows, w, p, type) ==
  SumFunction([row \in MovementsOf(rows, w, p, type) |-> Movement(row).cost])

(* The stock of every warehouse is what its movements add up to, in units  *)
(* and in value; empty stock is worth nothing; and all of it together is   *)
(* worth what the ledger's inventory account says.                         *)
InventoryAgrees ==
  LET rows == MovementRows
  IN  /\ \A w \in Warehouses, p \in Products :
           /\ stock[w][p].units = UnitsMoved(rows, w, p, "in") - UnitsMoved(rows, w, p, "out")
           /\ stock[w][p].value = ValueMoved(rows, w, p, "in") - ValueMoved(rows, w, p, "out")
           /\ stock[w][p].units = 0 => stock[w][p].value = 0
      /\ Balance("inventory") =
           SumFunction([wp \in Warehouses \X Products |-> stock[wp[1]][wp[2]].value])

\* A tracked product that invoice o took out of stock.
SoldOf(o, p) == invoices[o].kind \in {"sale", "non_formal"} /\ MovedUnits(movements[o], p) > 0

(* When every unit of a sale has come back, in any number of returns and   *)
(* of lines, so has every rial of its cost, no more and no less (the test  *)
(* "all partial sale returns restore every rial of original COGS").        *)
FullReturnRestoresCost ==
  \A o \in InvoiceIds, p \in Products :
    SoldOf(o, p) /\ ReturnedUnits(o, p) = MovedUnits(movements[o], p)
      => RestockedCost(o, p) = MovedCost(movements[o], p)

(* Returned goods are never valued above what the sale took out: the last  *)
(* return is refused with "cost of the return exceeds that of the original *)
(* invoice" (RetailPostingService.js:308), the earlier ones are not.       *)
ReturnsWithinCost ==
  \A o \in InvoiceIds, p \in Products :
    SoldOf(o, p) => RestockedCost(o, p) <= MovedCost(movements[o], p)

(* A fully counted stocktake can be finished: between its opening and its  *)
(* closing neither the stock it snapshot, nor the period of its date, nor  *)
(* another session can have moved from under it.                           *)
CountedSessionFinishes ==
  \A s \in StocktakeIds :
    /\ stocktakes[s].status = "draft" /\ stocktakes[s].lines # <<>>
    /\ \A p \in DOMAIN stocktakes[s].lines :
         stocktakes[s].lines[p].counted # Null /\ CanValue(stocktakes[s].lines[p])
    => CanFinalize(s)

(* Goods, books and counts agree: the stock is what was moved and the      *)
(* inventory account its worth, a sale given back whole restores the cost  *)
(* it took, and a stocktake that is fully counted can be finished, whatever*)
(* was posted or closed meanwhile (RetailPostingService.js:281-314,        *)
(* 765-816).                                                               *)
GoodsAgree == InventoryAgrees /\ FullReturnRestoresCost /\ CountedSessionFinishes

\* The journals, treasury rows and stock movements dated in period p, as they are.
DatedIn(p) ==
  <<{j \in journals : PeriodOf[j.date] = p},
    {<<k, treasury[k]>> : k \in {k \in DOMAIN treasury : PeriodOf[treasury[k].date] = p}},
    [doc \in Documents |->
       {<<k, movements[doc][k]>> :
          k \in {k \in DOMAIN movements[doc] : PeriodOf[movements[doc][k].date] = p}}]>>

InvoiceIn(i, p) == invoices[i].kind # "none" /\ PeriodOf[invoices[i].date] = p
IssuedIn(c, p) == cheques[c].status # "absent" /\ PeriodOf[cheques[c].issued] = p
SettledIn(c, p) ==
  cheques[c].status \notin {"absent", "pending"} /\ PeriodOf[cheques[c].settled] = p

\* The documents of period p: its invoices but for what was paid on them, the
\* cheques issued in it, and those whose status changed in it.
DocumentsIn(p) ==
  <<{<<i, [invoices[i] EXCEPT !.paid = 0]>> : i \in {i \in InvoiceIds : InvoiceIn(i, p)}},
    {<<c, cheques[c].direction, cheques[c].amount>> : c \in {c \in ChequeIds : IssuedIn(c, p)}},
    {<<c, cheques[c]>> : c \in {c \in ChequeIds : SettledIn(c, p)}}>>

(* No command adds to a closed period, takes from it or changes it: not a  *)
(* journal, a treasury row or a stock movement, nor an invoice or a cheque *)
(* but for a later payment, and no command reopens it.                     *)
ClosedPeriodFrozen ==
  [][\A p \in closed :
       p \in closed' /\ DatedIn(p)' = DatedIn(p) /\ DocumentsIn(p)' = DocumentsIn(p)]_vars

OriginalOnly(f) ==
  [i \in InvoiceIds |-> IF invoices[i].kind \in OriginalKinds THEN f[i] ELSE 0]

Settlement == INSTANCE ReturnSettlement WITH
  Originals <- InvoiceIds,
  Amounts <- {Grand(form) : form \in InvoiceForms} \cup {form.paid : form \in InvoiceForms}
               \cup CashAmounts,
  gross <- OriginalOnly([i \in InvoiceIds |-> invoices[i].grand]),
  paid <- OriginalOnly([i \in InvoiceIds |-> invoices[i].paid]),
  returned <- OriginalOnly([i \in InvoiceIds |-> ReturnedGross(i)]),
  refunded <- OriginalOnly([i \in InvoiceIds |-> Refunded(i)])

(* Through every order of invoices, receipts, returns and refunds, money   *)
(* is collected up to what is owed after the returns and handed back up to *)
(* what was paid beyond that.                                              *)
SettlesReturns == Settlement!SettlementSpec
=============================================================================
