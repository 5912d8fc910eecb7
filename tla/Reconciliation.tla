--------------------------- MODULE Reconciliation ---------------------------
(***************************************************************************)
(* The two read-only controls of an accountant, over the stores that the   *)
(* commands of RetailPosting write: the reconciliation report              *)
(* (ReconciliationCore.mjs) and the check of settlements in the settings   *)
(* (FinancialDiagnosticsService.js).                                       *)
(*                                                                         *)
(* A store is a function from the ids of its rows, so that a row can be    *)
(* lost and a figure of it altered, by a disk, a restore or a bug. A line  *)
(* of a journal is its net amount on an account, debits positive; the      *)
(* contacts of lines and the methods of transactions are left out.         *)
(***************************************************************************)
EXTENDS RetailPosting

\* The rows with a figure for the account in a journal.
LineIds == {<<j.source, a>> : j \in journals, a \in Accounts}

JournalOf(source) == CHOOSE j \in journals : j.source = source

SumRows(rows, ids) == MapThenSumSet(LAMBDA id : rows[id], ids)

Debits(entry) == SumRows(entry, {a \in Accounts : entry[a] > 0})

StatusOf(paid, grand) == IF paid = 0 THEN "unpaid" ELSE IF paid = grand THEN "paid" ELSE "partial"

\* The journal a transaction was posted with.
PostedWith(k) ==
  LET ref == treasury[k].ref
  IN  IF ref # None /\ ref[1] = "cheque" THEN <<"cheque_status", ref[2]>>
      ELSE IF ref # None /\ ref[1] = "expense" THEN ref
      ELSE <<"treasury", k>>

(* reconciliationReport: the stores, read in one transaction.              *)
Stores ==
  [journal_entries |->
     [s \in {j.source : j \in journals} |-> [amount |-> Debits(JournalOf(s).entry)]],
   journal_lines |->
     [l \in {m \in LineIds : JournalOf(m[1]).entry[m[2]] # 0} |->
        [amount |-> JournalOf(l[1]).entry[l[2]]]],
   invoices |->
     [i \in {j \in InvoiceIds : invoices[j].kind # "none"} |->
        [amount |-> invoices[i].paid, grand |-> invoices[i].grand,
         remaining |-> invoices[i].grand - invoices[i].paid,
         status |-> StatusOf(invoices[i].paid, invoices[i].grand)]],
   settlements |->
     [k \in {m \in DOMAIN treasury : \E i \in InvoiceIds : treasury[m].ref = <<"invoice", i>>} |->
        [amount |-> treasury[k].amount, invoice |-> treasury[k].ref[2], transaction |-> k]],
   treasury |->
     [k \in DOMAIN treasury |->
        [amount |-> treasury[k].amount, type |-> treasury[k].type, ref |-> treasury[k].ref,
         from |-> treasury[k].from, to |-> treasury[k].to, date |-> treasury[k].date,
         journal |-> PostedWith(k)]],
   cheques |-> [c \in {b \in ChequeIds : cheques[b].status # "absent"} |-> cheques[c]],
   inventory_balances |->
     [wp \in {x \in Warehouses \X Products : HasBalance(x[1], x[2])} |->
        [amount |-> stock[wp[1]][wp[2]].units, value |-> stock[wp[1]][wp[2]].value]],
   stock_movements |->
     [m \in UNION {{doc} \X DOMAIN movements[doc] : doc \in Documents} |->
        LET move == movements[m[1]][m[2]]
        IN  [amount |-> move.units, type |-> move.type,
             at |-> <<move.warehouse, move.product>>]]]

-----------------------------------------------------------------------------
(* reconcileFinancialData                                                  *)

LinesOf(db, source) == {l \in DOMAIN db.journal_lines : l[1] = source}
AmountOf(rows) == [id \in DOMAIN rows |-> rows[id].amount]

JournalIssues(db) ==
  LET amounts == AmountOf(db.journal_lines)
      debit(s) == SumRows(amounts, {l \in LinesOf(db, s) : amounts[l] > 0})
      heads == DOMAIN db.journal_entries
  IN  {<<"ORPHAN_JOURNAL_LINE", l>> : l \in {m \in DOMAIN amounts : m[1] \notin heads}}
      \cup {<<"EMPTY_JOURNAL", s>> : s \in {h \in heads : LinesOf(db, h) = {}}}
      \cup {<<"JOURNAL_UNBALANCED", s>> : s \in {h \in heads : SumRows(amounts, LinesOf(db, h)) # 0}}
      \cup {<<"JOURNAL_TOTAL_MISMATCH", s>> :
              s \in {h \in heads : LinesOf(db, h) # {} /\ db.journal_entries[h].amount # debit(h)}}

SettlementBroken(db, code, k) ==
  LET row == db.settlements[k]
      found == row.transaction \in DOMAIN db.treasury
  IN  CASE code = "ORPHAN_SETTLEMENT" -> row.invoice \notin DOMAIN db.invoices
        [] code = "MISSING_SETTLEMENT_TRANSACTION" -> ~found
        [] code = "SETTLEMENT_REFERENCE_MISMATCH" ->
             found /\ db.treasury[row.transaction].ref \notin {None, <<"invoice", row.invoice>>}
        [] code = "SETTLEMENT_CASH_MISMATCH" ->
             found /\ db.treasury[row.transaction].amount # row.amount
        [] code = "DUPLICATE_SETTLEMENT_TRANSACTION" ->
             \E m \in DOMAIN db.settlements \ {k} : db.settlements[m].transaction = row.transaction
        [] code = "INVALID_SETTLEMENT_AMOUNT" -> row.amount <= 0

SettlementIssues(db) ==
  {issue \in {"ORPHAN_SETTLEMENT", "MISSING_SETTLEMENT_TRANSACTION",
              "SETTLEMENT_REFERENCE_MISMATCH", "SETTLEMENT_CASH_MISMATCH",
              "DUPLICATE_SETTLEMENT_TRANSACTION", "INVALID_SETTLEMENT_AMOUNT"}
             \X DOMAIN db.settlements :
     SettlementBroken(db, issue[1], issue[2])}

Applied(db, i) ==
  SumRows(AmountOf(db.settlements),
          {k \in DOMAIN db.settlements : /\ db.settlements[k].invoice = i
                                         /\ db.settlements[k].amount > 0})

InvoiceIssues(db) ==
  {<<"INVOICE_JOURNAL_MISSING", i>> :
     i \in {j \in DOMAIN db.invoices : <<"invoice", j>> \notin DOMAIN db.journal_entries}}
  \cup {<<"INVOICE_SETTLEMENT_MISMATCH", i>> :
     i \in {j \in DOMAIN db.invoices : db.invoices[j].amount # Applied(db, j)}}
  \cup {<<"INVOICE_BALANCE_MISMATCH", i>> :
     i \in {j \in DOMAIN db.invoices :
              db.invoices[j].amount + db.invoices[j].remaining # db.invoices[j].grand}}

MoneyOf(db, c) == {k \in DOMAIN db.treasury : db.treasury[k].ref = <<"cheque", c>>}

HasLine(db, source, account, n) ==
  <<source, account>> \in DOMAIN db.journal_lines /\ db.journal_lines[<<source, account>>].amount = n

\* The transaction, the line of the bank and that of the cheque of a clearing.
Cleared(db, c) ==
  LET cheque == db.cheques[c]
      inbound == cheque.direction = "inbound"
      source == <<"cheque_status", c>>
      n == IF inbound THEN cheque.amount ELSE -cheque.amount
  IN  /\ Cardinality(MoneyOf(db, c)) = 1
      /\ \A k \in MoneyOf(db, c) :
           LET t == db.treasury[k]
           IN  /\ t.type = (IF inbound THEN "receipt" ELSE "payment")
               /\ t.amount = cheque.amount /\ t.journal = source
               /\ t.date = cheque.settled
               /\ (IF inbound THEN t.to ELSE t.from) = cheque.account
               /\ (IF inbound THEN t.from ELSE t.to) = None
      /\ HasLine(db, source, cheque.account, n)
      /\ HasLine(db, source, IF inbound THEN "chequeIn" ELSE "chequeOut", -n)
      /\ Cardinality(LinesOf(db, source)) = 2

Spent(db, c) ==
  /\ db.cheques[c].direction = "inbound"
  /\ HasLine(db, <<"cheque_status", c>>, "payable", db.cheques[c].amount)
  /\ HasLine(db, <<"cheque_status", c>>, "chequeIn", -db.cheques[c].amount)

\* Mutant: one transaction or none will do for a pending cheque.
ChequeSoundLax(db, c) ==
  LET settled == <<"cheque_status", c>> \in DOMAIN db.journal_entries
      status == db.cheques[c].status
  IN  /\ <<"cheque", c>> \in DOMAIN db.journal_entries
      /\ status # "pending" => settled
      /\ status = "cleared" => MoneyOf(db, c) # {}
      /\ status = "spent" => Spent(db, c)

ChequeSound(db, c) ==
  LET settled == <<"cheque_status", c>> \in DOMAIN db.journal_entries
      status == db.cheques[c].status
  IN  /\ <<"cheque", c>> \in DOMAIN db.journal_entries
      /\ IF status = "pending" THEN ~settled ELSE settled
      /\ status # "cleared" => MoneyOf(db, c) = {}
      /\ status = "cleared" => Cleared(db, c)
      /\ status = "spent" => Spent(db, c)

ChequeIssues(db) ==
  {<<"CHEQUE", c>> : c \in {b \in DOMAIN db.cheques : ~ChequeSound(db, b)}}
  \cup {<<"ORPHAN_CHEQUE_CASH", k>> :
     k \in {m \in DOMAIN db.treasury :
              /\ db.treasury[m].ref # None /\ db.treasury[m].ref[1] = "cheque"
              /\ db.treasury[m].ref[2] \notin DOMAIN db.cheques}}

MovedTotal(db, wp, type) ==
  SumRows(AmountOf(db.stock_movements),
          {m \in DOMAIN db.stock_movements : /\ db.stock_movements[m].at = wp
                                             /\ db.stock_movements[m].type = type})

NetUnits(db, wp) == MovedTotal(db, wp, "in") - MovedTotal(db, wp, "out")

QuantityWrong(db, wp) == db.inventory_balances[wp].amount # NetUnits(db, wp)

StockIssues(db) ==
  LET moves == db.stock_movements
      kept == DOMAIN db.inventory_balances
      lines == {l \in DOMAIN db.journal_lines :
                  l[2] = "inventory" /\ l[1] \in DOMAIN db.journal_entries}
      book == SumRows([wp \in kept |-> db.inventory_balances[wp].value], kept)
  IN  {<<"STOCK_QUANTITY_MISMATCH", wp>> : wp \in {b \in kept : QuantityWrong(db, b)}}
      \cup {<<"MISSING_STOCK_BALANCE", wp>> :
         wp \in {b \in {moves[m].at : m \in DOMAIN moves} \ kept : NetUnits(db, b) # 0}}
      \cup (IF SumRows(AmountOf(db.journal_lines), lines) # book
            THEN {<<"INVENTORY_LEDGER_MISMATCH", "inventory">>} ELSE {})

reconcileFinancialData(db) ==
  JournalIssues(db) \cup SettlementIssues(db) \cup InvoiceIssues(db) \cup ChequeIssues(db)
  \cup StockIssues(db)

-----------------------------------------------------------------------------
(* inspectSettlementConsistency                                            *)
inspectSettlementConsistency(db) ==
  LET rows == db.settlements
      orphan == {k \in DOMAIN rows : rows[k].invoice \notin DOMAIN db.invoices}
      paid(i) == db.invoices[i].amount
      grand(i) == db.invoices[i].grand
  IN  {<<"ORPHAN_SETTLEMENT", k>> : k \in orphan}
      \cup {<<"INVALID_SETTLEMENT_AMOUNT", k>> : k \in {m \in DOMAIN rows \ orphan : rows[m].amount <= 0}}
      \cup {<<"MISSING_TREASURY_TRANSACTION", k>> :
              k \in {m \in DOMAIN rows \ orphan :
                       rows[m].amount > 0 /\ rows[m].transaction \notin DOMAIN db.treasury}}
      \cup {<<"SETTLEMENT_TOTAL_MISMATCH", i>> :
              i \in {j \in DOMAIN db.invoices : Applied(db, j) # paid(j)}}
      \cup {<<"INVOICE_OVERPAID", i>> : i \in {j \in DOMAIN db.invoices : paid(j) > grand(j)}}
      \cup {<<"INVOICE_REMAINING_MISMATCH", i>> :
              i \in {j \in DOMAIN db.invoices : db.invoices[j].remaining # grand(j) - paid(j)}}
      \cup {<<"INVOICE_STATUS_MISMATCH", i>> :
              i \in {j \in DOMAIN db.invoices : db.invoices[j].status # StatusOf(paid(j), grand(j))}}

-----------------------------------------------------------------------------
\* A row of a store is lost, or its amount is off by one.
Lose(db, store, id) == [db EXCEPT ![store] = [x \in DOMAIN @ \ {id} |-> @[x]]]
Alter(db, store, id) == [db EXCEPT ![store][id].amount = @ + 1]

(* Through any order of commands, stocktakes and cheque events included,   *)
(* neither control finds anything wrong with what the commands wrote: the  *)
(* report never cries wolf (reconciliation.test.mjs:78 for one sale).      *)
NothingToReport ==
  LET db == Stores
  IN  reconcileFinancialData(db) = {} /\ inspectSettlementConsistency(db) = {}

\* Rows that another row names, or that a compared total is the sum of.
NamedRows(db, store) ==
  CASE store = "invoices" -> {i \in DOMAIN db.invoices : db.invoices[i].amount > 0}
    [] store = "treasury" ->
         {k \in DOMAIN db.treasury :
            db.treasury[k].ref # None /\ db.treasury[k].ref[1] # "expense"}
    [] store = "cheques" -> {c \in DOMAIN db.cheques : db.cheques[c].status = "cleared"}
    [] store = "inventory_balances" ->
         {wp \in DOMAIN db.inventory_balances : db.inventory_balances[wp].amount > 0}
    [] OTHER -> DOMAIN db[store]

(* Whatever row that others name is lost, in whatever company the commands *)
(* can build, the report says so. A document no row names, an unpaid       *)
(* invoice or a pending cheque, can be lost in silence.                    *)
LossReported ==
  LET db == Stores
  IN  \A store \in DOMAIN db : \A id \in NamedRows(db, store) :
        reconcileFinancialData(Lose(db, store, id)) # {}

\* The rows whose amount another row repeats.
RepeatedAmounts(db, store) ==
  CASE store = "cheques" ->
         {c \in DOMAIN db.cheques : db.cheques[c].status \in {"cleared", "spent"}}
    [] store = "treasury" -> NamedRows(db, store)
    [] OTHER -> DOMAIN db[store]

(* Whatever amount is altered that another row repeats, the report says    *)
(* so: of a journal, a line, an invoice, a settlement, its transaction, a  *)
(* cheque that moved money, a balance or a movement.                       *)
AlterationReported ==
  LET db == Stores
  IN  \A store \in DOMAIN db : \A id \in RepeatedAmounts(db, store) :
        reconcileFinancialData(Alter(db, store, id)) # {}

(* What the quick check of the settings finds, the report finds as well:   *)
(* an accountant who reads only the report misses nothing.                 *)
ReportCoversQuickCheck ==
  LET db == Stores
  IN  \A store \in {"invoices", "settlements", "treasury"} : \A id \in DOMAIN db[store] :
        \A damaged \in {Lose(db, store, id), Alter(db, store, id)} :
          inspectSettlementConsistency(damaged) # {} => reconcileFinancialData(damaged) # {}
=============================================================================
