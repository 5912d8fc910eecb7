---------------------------- MODULE RetailProofs ----------------------------
(***************************************************************************)
(* Proofs about RetailPosting and ReturnSettlement, for every set of       *)
(* documents, accounts, periods and amounts: what a cheque has moved and   *)
(* what a closed period still takes; that a refund stays within the credit *)
(* through every order of steps, and that the commands of the shop keep    *)
(* that contract; that the ledger, the documents and the treasury list name*)
(* the same money; and that stock, movements and the inventory account     *)
(* name the same goods, which returns restore and counts can correct.      *)
(***************************************************************************)
EXTENDS RetailPosting, ReturnPreview, SumTheorems

\* What a treasury row may refer to.
Refs == {None} \cup {"invoice", "expense", "cheque"} \X (InvoiceIds \cup ExpenseIds \cup ChequeIds)

TreasuryRow ==
  [type: {"receipt", "payment", "transfer"}, amount: Nat, ref: Refs, date: Dates,
   from: CashAccounts \cup {None}, to: CashAccounts \cup {None}]

ChequeRow ==
  [status: {"absent", "pending", "cleared", "bounced", "returned", "spent"},
   direction: {"none", "inbound", "outbound"}, amount: Nat, issued: Nat, settled: Nat,
   account: CashAccounts \cup {None}]

ChequeOf(c) == <<"cheque", c>>

Moved(c) == {k \in DOMAIN treasury : treasury[k].ref = ChequeOf(c)}

\* The evidence of one cheque, as ChequeEvidence asks for it.
Evident(c) ==
  IF cheques[c].status # "cleared"
  THEN Moved(c) = {}
  ELSE \E k \in Moved(c) :
         /\ Moved(c) = {k}
         /\ treasury[k].amount = cheques[c].amount
         /\ treasury[k].date = cheques[c].settled
         /\ cheques[c].issued <= cheques[c].settled
         /\ IF cheques[c].direction = "inbound"
            THEN treasury[k].to = cheques[c].account
            ELSE treasury[k].from = cheques[c].account

ChequeInv ==
  /\ treasury \in Seq(TreasuryRow)
  /\ cheques \in [ChequeIds -> ChequeRow]
  /\ \A c \in ChequeIds : Evident(c)

\* A command that adds a treasury row on an open day, and no cheque's.
AddsRow ==
  \E row \in TreasuryRow :
    /\ treasury' = Append(treasury, row) /\ Open(row.date)
    /\ \A c \in ChequeIds : row.ref # ChequeOf(c)

-----------------------------------------------------------------------------
(* What the commands add to the treasury.                                  *)

LEMMA TransactionIsRow ==
  ASSUME NEW type \in {"receipt", "payment"}, NEW account \in CashAccounts, NEW n \in Nat,
         NEW ref \in Refs, NEW d \in Dates
  PROVE  /\ Transaction(type, account, n, ref, d) \in TreasuryRow
         /\ Transaction(type, account, n, ref, d).ref = ref
         /\ Transaction(type, account, n, ref, d).date = d
  BY DEF Transaction, TreasuryRow

LEMMA SettledByType ==
  ASSUME NEW kind
  PROVE  SettledBy(kind) \in {"receipt", "payment"}
  BY DEF SettledBy

\* A reference to an invoice or an expense, or none, is no cheque's.
LEMMA RefsApart ==
  /\ None \in Refs
  /\ \A i \in InvoiceIds : <<"invoice", i>> \in Refs
  /\ \A e \in ExpenseIds : <<"expense", e>> \in Refs
  /\ \A c \in ChequeIds : /\ ChequeOf(c) \in Refs /\ ChequeOf(c) # None
                          /\ \A i \in InvoiceIds : ChequeOf(c) # <<"invoice", i>>
                          /\ \A e \in ExpenseIds : ChequeOf(c) # <<"expense", e>>
  BY RetailAssumption DEF Refs, ChequeOf

LEMMA IssueMoney ==
  ASSUME NEW i \in InvoiceIds, NEW form \in InvoiceForms, NEW o, NEW w, NEW d \in Dates,
         NEW account \in CashAccounts, IssueInvoice(i, form, o, w, d, account)
  PROVE  UNCHANGED cheques /\ (UNCHANGED treasury \/ AddsRow)
<1>1. UNCHANGED cheques /\ Open(d)
  BY DEF IssueInvoice, WriteInvoice
<1>2. form.paid \in Nat
  BY RetailAssumption DEF Form
<1> DEFINE row == Transaction(SettledBy(form.kind), account, form.paid, <<"invoice", i>>, d)
<1>3. UNCHANGED treasury \/ treasury' = Append(treasury, row)
  BY DEF IssueInvoice, WriteInvoice, Record
<1>4. row \in TreasuryRow /\ row.ref = <<"invoice", i>> /\ row.date = d
  BY <1>2, TransactionIsRow, SettledByType, RefsApart
<1> HIDE DEF row
<1> QED
  BY <1>1, <1>3, <1>4, RefsApart DEF AddsRow

LEMMA CashMoney ==
  ASSUME NEW d \in Dates, PostTransaction(d)
  PROVE  UNCHANGED cheques /\ AddsRow
<1>1. ASSUME NEW n \in CashAmounts, NEW account \in CashAccounts, NEW type \in {"receipt", "payment"},
             NEW i \in InvoiceIds, SettleInvoice(i, type, account, n, d)
      PROVE  UNCHANGED cheques /\ AddsRow
  <2> DEFINE row == Transaction(type, account, n, <<"invoice", i>>, d)
  <2>1. UNCHANGED cheques /\ treasury' = Append(treasury, row) /\ Open(d)
    BY <1>1 DEF SettleInvoice, Record, Journal
  <2>2. row \in TreasuryRow /\ row.ref = <<"invoice", i>> /\ row.date = d
    BY TransactionIsRow, RefsApart, RetailAssumption
  <2> HIDE DEF row
  <2> QED
    BY <2>1, <2>2, RefsApart DEF AddsRow
<1>2. ASSUME NEW n \in CashAmounts, NEW account \in CashAccounts, NEW type \in {"receipt", "payment"},
             CashOnAccount(type, account, n, d)
      PROVE  UNCHANGED cheques /\ AddsRow
  <2> DEFINE row == Transaction(type, account, n, None, d)
  <2>1. UNCHANGED cheques /\ treasury' = Append(treasury, row) /\ Open(d)
    BY <1>2 DEF CashOnAccount, Record, Journal
  <2>2. row \in TreasuryRow /\ row.ref = None /\ row.date = d
    BY TransactionIsRow, RefsApart, RetailAssumption
  <2> HIDE DEF row
  <2> QED
    BY <2>1, <2>2, RefsApart DEF AddsRow
<1>3. ASSUME NEW n \in CashAmounts, NEW account \in CashAccounts, NEW to \in CashAccounts,
             TransferCash(account, to, n, d)
      PROVE  UNCHANGED cheques /\ AddsRow
  <2> DEFINE row == [type |-> "transfer", amount |-> n, ref |-> None, date |-> d,
                     from |-> account, to |-> to]
  <2>1. UNCHANGED cheques /\ treasury' = Append(treasury, row) /\ Open(d)
    BY <1>3 DEF TransferCash, Record, Journal
  <2>2. row \in TreasuryRow /\ row.ref = None /\ row.date = d
    BY RefsApart, RetailAssumption DEF TreasuryRow
  <2> HIDE DEF row
  <2> QED
    BY <2>1, <2>2, RefsApart DEF AddsRow
<1> QED
  BY <1>1, <1>2, <1>3 DEF PostTransaction

LEMMA ExpenseMoney ==
  ASSUME NEW e \in ExpenseIds, NEW income, NEW account \in CashAccounts, NEW n \in CashAmounts,
         NEW d \in Dates, PostExpense(e, income, account, n, d)
  PROVE  UNCHANGED cheques /\ AddsRow
<1> DEFINE type == IF income THEN "receipt" ELSE "payment"
           row == Transaction(type, account, n, <<"expense", e>>, d)
<1>1. UNCHANGED cheques /\ treasury' = Append(treasury, row) /\ Open(d)
  BY DEF PostExpense, Record, Journal
<1>2. type \in {"receipt", "payment"}
  OBVIOUS
<1> HIDE DEF type
<1>3. row \in TreasuryRow /\ row.ref = <<"expense", e>> /\ row.date = d
  BY <1>2, TransactionIsRow, RefsApart, RetailAssumption
<1> HIDE DEF row
<1> QED
  BY <1>1, <1>3, RefsApart DEF AddsRow

-----------------------------------------------------------------------------
(* Cheques and what they moved.                                            *)

\* The rows before an appended one stay where they are.
LEMMA RowAppended ==
  ASSUME treasury \in Seq(TreasuryRow), NEW row \in TreasuryRow, treasury' = Append(treasury, row)
  PROVE  LET new == Len(treasury) + 1
         IN  /\ treasury' \in Seq(TreasuryRow)
             /\ DOMAIN treasury' = DOMAIN treasury \cup {new} /\ new \notin DOMAIN treasury
             /\ treasury'[new] = row
             /\ \A k \in DOMAIN treasury : treasury'[k] = treasury[k]
  OBVIOUS

\* A row of another document leaves the evidence of a cheque alone.
LEMMA RowKeepsEvidence ==
  ASSUME ChequeInv, UNCHANGED cheques, AddsRow
  PROVE  ChequeInv'
<1>1. PICK row \in TreasuryRow : /\ treasury' = Append(treasury, row)
                                /\ \A c \in ChequeIds : row.ref # ChequeOf(c)
  BY DEF AddsRow
<1>2. /\ treasury' \in Seq(TreasuryRow)
      /\ \A k \in DOMAIN treasury : treasury'[k] = treasury[k]
      /\ \A c \in ChequeIds : Moved(c)' = Moved(c)
  BY <1>1, RowAppended DEF ChequeInv, Moved
<1>3. \A c \in ChequeIds : Evident(c)'
  <2> SUFFICES ASSUME NEW c \in ChequeIds PROVE Evident(c)'
    OBVIOUS
  <2>1. Evident(c) /\ Moved(c) \subseteq DOMAIN treasury
    BY DEF ChequeInv, Moved
  <2> QED
    BY <1>2, <2>1 DEF Evident
<1> QED
  BY <1>2, <1>3 DEF ChequeInv

LEMMA PostChequeEvidence ==
  ASSUME ChequeInv, NEW c \in ChequeIds, NEW direction \in {"inbound", "outbound"},
         NEW n \in CashAmounts, NEW d \in Dates, PostCheque(c, direction, n, d)
  PROVE  ChequeInv'
<1>1. /\ UNCHANGED treasury /\ cheques[c].status = "absent"
      /\ cheques' = [cheques EXCEPT ![c] =
           [NoCheque EXCEPT !.status = "pending", !.direction = direction,
                            !.amount = n, !.issued = d]]
  BY DEF PostCheque
<1>2. cheques' \in [ChequeIds -> ChequeRow] /\ cheques'[c].status = "pending"
      /\ \A b \in ChequeIds \ {c} : cheques'[b] = cheques[b]
  BY <1>1, RetailAssumption DEF ChequeInv, ChequeRow, NoCheque
<1>3. ASSUME NEW b \in ChequeIds PROVE Evident(b)'
  <2>1. Evident(b) /\ Moved(b)' = Moved(b)
    BY <1>1 DEF ChequeInv, Moved
  <2> QED
    BY <1>1, <1>2, <2>1 DEF Evident
<1> QED
  BY <1>1, <1>2, <1>3 DEF ChequeInv

\* A pending cheque has moved nothing; cleared, it moves its amount once.
LEMMA StatusEvidence ==
  ASSUME ChequeInv, NEW c \in ChequeIds, NEW status \in {"cleared", "bounced", "returned", "spent"},
         NEW account \in CashAccounts, NEW d \in Dates, ChangeChequeStatus(c, status, account, d)
  PROVE  ChequeInv'
<1> DEFINE type == IF cheques[c].direction = "inbound" THEN "receipt" ELSE "payment"
           row == Transaction(type, account, cheques[c].amount, ChequeOf(c), d)
<1>1. /\ cheques[c].status = "pending" /\ cheques[c].issued <= d
      /\ cheques' = [cheques EXCEPT ![c].status = status, ![c].settled = d,
                       ![c].account = IF status = "cleared" THEN account ELSE None]
      /\ IF status = "cleared" THEN treasury' = Append(treasury, row) ELSE UNCHANGED treasury
  BY DEF ChangeChequeStatus, MayChange, Record, ChequeOf
<1>2. /\ cheques[c] \in ChequeRow
      /\ cheques' \in [ChequeIds -> ChequeRow]
      /\ cheques'[c].status = status /\ cheques'[c].settled = d
      /\ cheques'[c].amount = cheques[c].amount /\ cheques'[c].issued = cheques[c].issued
      /\ cheques'[c].direction = cheques[c].direction
      /\ status = "cleared" => cheques'[c].account = account
      /\ \A b \in ChequeIds \ {c} : cheques'[b] = cheques[b]
  <2> DEFINE chosen == IF status = "cleared" THEN account ELSE None
             old == cheques[c]
             new == [old EXCEPT !.status = status, !.settled = d, !.account = chosen]
  <2>1. cheques \in [ChequeIds -> ChequeRow] /\ old \in ChequeRow
    BY DEF ChequeInv
  <2>2. chosen \in CashAccounts \cup {None} /\ (status = "cleared" => chosen = account) /\ d \in Nat
    BY RetailAssumption
  <2>3. cheques' = [cheques EXCEPT ![c].status = status, ![c].settled = d, ![c].account = chosen]
    BY <1>1
  <2> HIDE DEF chosen
  <2>4. cheques' = [cheques EXCEPT ![c] = new]
    BY <2>1, <2>3
  <2> HIDE DEF old
  <2>5. /\ new \in ChequeRow /\ new.status = status /\ new.settled = d /\ new.account = chosen
        /\ new.amount = old.amount /\ new.issued = old.issued /\ new.direction = old.direction
    BY <2>1, <2>2 DEF ChequeRow
  <2> HIDE DEF new
  <2> QED
    BY <2>1, <2>2, <2>4, <2>5 DEF old
<1>3. CASE status # "cleared"
  <2>1. ASSUME NEW b \in ChequeIds PROVE Evident(b)'
    <3>1. Evident(b) /\ Evident(c) /\ Moved(b)' = Moved(b)
      BY <1>1, <1>3 DEF ChequeInv, Moved
    <3> QED
      BY <1>1, <1>2, <1>3, <3>1 DEF Evident
  <2> QED
    BY <1>1, <1>2, <1>3, <2>1 DEF ChequeInv
<1>4. CASE status = "cleared"
  <2> DEFINE new == Len(treasury) + 1
  <2>1. type \in {"receipt", "payment"} /\ cheques[c].amount \in Nat
    BY <1>2 DEF ChequeRow
  <2>2. /\ row \in TreasuryRow /\ row.ref = ChequeOf(c) /\ row.date = d
        /\ row.amount = cheques[c].amount
        /\ IF cheques[c].direction = "inbound" THEN row.to = account ELSE row.from = account
    <3>1. row \in TreasuryRow /\ row.ref = ChequeOf(c) /\ row.date = d
      BY <2>1, TransactionIsRow, RefsApart
    <3> QED
      BY <3>1 DEF Transaction
  <2> HIDE DEF row, type
  <2>3. /\ treasury' \in Seq(TreasuryRow)
        /\ DOMAIN treasury' = DOMAIN treasury \cup {new} /\ new \notin DOMAIN treasury
        /\ treasury'[new] = row
        /\ \A k \in DOMAIN treasury : treasury'[k] = treasury[k]
    BY <1>1, <1>4, <2>2, RowAppended DEF ChequeInv
  <2> HIDE DEF new
  <2>4. Evident(c)'
    <3>1. Moved(c) = {}
      BY <1>1 DEF ChequeInv, Evident
    <3>2. Moved(c)' = {new}
      BY <2>2, <2>3, <3>1 DEF Moved
    <3>3. d \in Nat
      BY RetailAssumption
    <3> QED
      BY <1>1, <1>2, <1>4, <2>2, <2>3, <3>2, <3>3 DEF Evident
  <2>5. ASSUME NEW b \in ChequeIds \ {c} PROVE Evident(b)'
    <3>1. Evident(b) /\ Moved(b) \subseteq DOMAIN treasury
      BY DEF ChequeInv, Moved
    <3>2. Moved(b)' = Moved(b)
      BY <2>2, <2>3 DEF Moved, ChequeOf
    <3> QED
      BY <1>2, <2>3, <3>1, <3>2 DEF Evident
  <2> QED
    BY <1>2, <2>3, <2>4, <2>5 DEF ChequeInv
<1> QED
  BY <1>3, <1>4

LEMMA ChequeInvHolds == Spec => []ChequeInv
<1>1. Init => ChequeInv
  <2> SUFFICES ASSUME Init PROVE ChequeInv
    OBVIOUS
  <2>1. treasury = <<>> /\ treasury \in Seq(TreasuryRow)
    BY DEF Init
  <2>2. cheques \in [ChequeIds -> ChequeRow] /\ \A c \in ChequeIds : cheques[c].status = "absent"
    BY DEF Init, NoCheque, ChequeRow
  <2> QED
    BY <2>1, <2>2 DEF ChequeInv, Evident, Moved
<1>2. ChequeInv /\ [Next]_vars => ChequeInv'
  <2> SUFFICES ASSUME ChequeInv, [Next]_vars PROVE ChequeInv'
    OBVIOUS
  <2>1. ASSUME UNCHANGED <<treasury, cheques>> PROVE ChequeInv'
    BY <2>1 DEF ChequeInv, Evident, Moved
  <2>2. ASSUME NEW d \in Dates, NEW i \in InvoiceIds, NEW form \in InvoiceForms,
               NEW o \in InvoiceIds \cup {None}, NEW w \in Warehouses,
               NEW account \in CashAccounts, IssueInvoice(i, form, o, w, d, account)
        PROVE  ChequeInv'
    BY <2>1, <2>2, IssueMoney, RowKeepsEvidence
  <2>3. ASSUME NEW d \in Dates, PostTransaction(d) PROVE ChequeInv'
    BY <2>3, CashMoney, RowKeepsEvidence
  <2>4. ASSUME NEW d \in Dates, NEW e \in ExpenseIds, NEW income \in BOOLEAN,
               NEW account \in CashAccounts, NEW n \in CashAmounts,
               PostExpense(e, income, account, n, d)
        PROVE  ChequeInv'
    BY <2>4, ExpenseMoney, RowKeepsEvidence
  <2>5. ASSUME NEW d \in Dates, NEW c \in ChequeIds, NEW direction \in {"inbound", "outbound"},
               NEW n \in CashAmounts, PostCheque(c, direction, n, d)
        PROVE  ChequeInv'
    BY <2>5, PostChequeEvidence
  <2>6. ASSUME NEW d \in Dates, NEW c \in ChequeIds,
               NEW status \in {"cleared", "bounced", "returned", "spent"},
               NEW account \in CashAccounts, ChangeChequeStatus(c, status, account, d)
        PROVE  ChequeInv'
    BY <2>6, StatusEvidence
  <2>7. ASSUME NEW d \in Dates, NEW t \in TransferIds, NEW from \in Warehouses, NEW to \in Warehouses,
               NEW p \in Products, NEW units \in Quantities, TransferStock(t, from, to, p, units, d)
        PROVE  ChequeInv'
    BY <2>1, <2>7 DEF TransferStock, money
  <2>8. ASSUME NEW d \in Dates, NEW s \in StocktakeIds, NEW w \in Warehouses, NewStocktake(s, w, d)
        PROVE  ChequeInv'
    BY <2>1, <2>8 DEF NewStocktake, money
  <2>9. ASSUME NEW s \in StocktakeIds, NEW p \in Products, NEW units \in Quantities,
               NEW unitCost \in UnitCosts \cup {Null}, CountStocktake(s, p, units, unitCost)
        PROVE  ChequeInv'
    BY <2>1, <2>9 DEF CountStocktake, money
  <2>10. ASSUME NEW s \in StocktakeIds, FinalizeStocktake(s) PROVE ChequeInv'
    BY <2>1, <2>10 DEF FinalizeStocktake, money
  <2>11. ASSUME NEW p \in Periods, ClosePeriod(p) PROVE ChequeInv'
    BY <2>1, <2>11 DEF ClosePeriod, money
  <2>12. CASE UNCHANGED vars
    BY <2>1, <2>12 DEF vars
  <2> QED
    BY <2>2, <2>3, <2>4, <2>5, <2>6, <2>7, <2>8, <2>9, <2>10, <2>11, <2>12 DEF Next
<1> QED
  BY <1>1, <1>2, PTL DEF Spec

(* ChequeEvidence: whatever else is received, paid, sold and closed, a     *)
(* cheque that is cleared has moved its amount once, in its direction, on  *)
(* the approved account and day, and every other cheque has moved nothing. *)
THEOREM ChequeCorrect == Spec => []ChequeEvidence
<1>1. ChequeInv => ChequeEvidence
  BY DEF ChequeInv, Evident, Moved, ChequeOf, ChequeEvidence
<1> QED
  BY <1>1, ChequeInvHolds, PTL

-----------------------------------------------------------------------------
(* What a closed period still takes.                                       *)

\* A document that is not written yet has moved no stock.
Unmoved ==
  /\ DOMAIN movements = Documents
  /\ DOMAIN invoices = InvoiceIds /\ DOMAIN stocktakes = StocktakeIds
  /\ \A i \in InvoiceIds : /\ "kind" \in DOMAIN invoices[i]
                           /\ invoices[i].kind = "none" => movements[i] = <<>>
  /\ \A s \in StocktakeIds : /\ "status" \in DOMAIN stocktakes[s]
                             /\ stocktakes[s].status # "posted" => movements[s] = <<>>

PeriodInv == ChequeInv /\ Unmoved

\* Each store takes new rows only, dated in an open period.
JournalsStamped == journals \subseteq journals' /\ \A j \in journals' \ journals : Open(j.date)

TreasuryStamped ==
  \/ UNCHANGED treasury
  \/ \E row \in TreasuryRow : treasury' = Append(treasury, row) /\ Open(row.date)

MovementsStamped ==
  \A doc \in Documents :
    \/ movements'[doc] = movements[doc]
    \/ /\ movements[doc] = <<>>
       /\ \A k \in DOMAIN movements'[doc] : Open(movements'[doc][k].date)

Stamped ==
  JournalsStamped /\ TreasuryStamped /\ MovementsStamped /\ closed \subseteq closed'

LEMMA PostingDate ==
  ASSUME NEW kind, NEW id, NEW d, NEW lines
  PROVE  Posting(kind, id, d, lines).date = d
  BY DEF Posting

LEMMA JournalStamped ==
  ASSUME NEW kind, NEW id, NEW d, NEW lines, Journal(kind, id, d, lines)
  PROVE  JournalsStamped
<1>1. Open(d) /\ journals' = journals \cup {Posting(kind, id, d, lines)}
  BY DEF Journal
<1> QED
  BY <1>1, PostingDate DEF JournalsStamped

LEMMA DatedDates ==
  ASSUME NEW moves, NEW d
  PROVE  \A k \in DOMAIN Dated(moves, d) : Dated(moves, d)[k].date = d
  BY DEF Dated

\* A document's movements are written once, all on its day.
LEMMA MovesStamped ==
  ASSUME Unmoved, NEW doc \in Documents, NEW moves, NEW d, movements[doc] = <<>>, Open(d),
         movements' = [movements EXCEPT ![doc] = Dated(moves, d)]
  PROVE  MovementsStamped /\ DOMAIN movements' = Documents
<1> DEFINE new == Dated(moves, d)
<1>1. \A k \in DOMAIN new : new[k].date = d
  BY DatedDates
<1> HIDE DEF new
<1>2. /\ movements'[doc] = new /\ DOMAIN movements' = Documents
      /\ \A other \in Documents \ {doc} : movements'[other] = movements[other]
  BY DEF Unmoved, new
<1> QED
  BY <1>1, <1>2 DEF MovementsStamped

LEMMA IssueStamped ==
  ASSUME PeriodInv, NEW i \in InvoiceIds, NEW form \in InvoiceForms, NEW o, NEW w, NEW d \in Dates,
         NEW account \in CashAccounts, IssueInvoice(i, form, o, w, d, account)
  PROVE  Unmoved' /\ Stamped
<1> DEFINE moves == BookItems(form, o, w).moves
           invoice == Posting("invoice", i, d,
                        InvoiceLines(form, NetTotals(form),
                                     SumFunction([k \in DOMAIN moves |-> moves[k].cost])))
           payment == Posting("treasury", NextTx, d,
                        CashLines(SettledBy(form.kind), account, ControlAccount(form.kind), form.paid))
<1>1. /\ invoices[i].kind = "none" /\ Open(d)
      /\ invoices' = [invoices EXCEPT ![i] =
           [kind |-> form.kind, orig |-> o, date |-> d, warehouse |-> w, items |-> form.items,
            grand |-> Grand(form), paid |-> form.paid]]
      /\ movements' = [movements EXCEPT ![i] = Dated(moves, d)]
      /\ UNCHANGED <<stocktakes, closed>>
  BY DEF IssueInvoice, WriteInvoice
<1>2. journals' = journals \cup {invoice} \/ journals' = journals \cup {invoice, payment}
  BY DEF IssueInvoice, WriteInvoice
<1>3. invoice.date = d /\ payment.date = d
  BY PostingDate
<1> HIDE DEF moves, invoice, payment
<1>4. JournalsStamped
  BY <1>1, <1>2, <1>3 DEF JournalsStamped
<1>5. TreasuryStamped
  BY IssueMoney DEF AddsRow, TreasuryStamped
<1>6. i \in Documents /\ movements[i] = <<>> /\ Unmoved
  BY <1>1 DEF PeriodInv, Unmoved, Documents
<1>7. MovementsStamped /\ DOMAIN movements' = Documents
  BY <1>1, <1>6, MovesStamped
<1>8. form.kind # "none"
  BY RetailAssumption DEF Form, OriginalKinds, ReturnKinds
<1>9. Unmoved'
  <2>1. /\ DOMAIN invoices' = InvoiceIds /\ invoices'[i].kind = form.kind
        /\ "kind" \in DOMAIN invoices'[i]
        /\ \A b \in InvoiceIds \ {i} : invoices'[b] = invoices[b]
    BY <1>1, <1>6 DEF Unmoved
  <2>2. \A doc \in Documents \ {i} : movements'[doc] = movements[doc]
    BY <1>1, <1>6 DEF Unmoved
  <2>3. i \notin StocktakeIds
    BY RetailAssumption
  <2> QED
    BY <1>1, <1>6, <1>7, <1>8, <2>1, <2>2, <2>3 DEF Unmoved, Documents
<1> QED
  BY <1>1, <1>4, <1>5, <1>7, <1>9 DEF Stamped

\* Money that is settled, received, paid or transferred moves no goods.
LEMMA CashStamped ==
  ASSUME PeriodInv, NEW d \in Dates, PostTransaction(d)
  PROVE  Unmoved' /\ Stamped
<1>1. TreasuryStamped
  BY CashMoney DEF AddsRow, TreasuryStamped
<1>2. ASSUME NEW n \in CashAmounts, NEW account \in CashAccounts, NEW type \in {"receipt", "payment"},
             NEW i \in InvoiceIds, SettleInvoice(i, type, account, n, d)
      PROVE  JournalsStamped /\ Unmoved' /\ UNCHANGED <<movements, closed>>
  <2>1. /\ invoices' = [invoices EXCEPT ![i].paid = @ + n]
        /\ UNCHANGED <<movements, stocktakes, closed>>
    BY <1>2 DEF SettleInvoice, goods
  <2>2. JournalsStamped
    BY <1>2, JournalStamped DEF SettleInvoice
  <2>3. /\ DOMAIN invoices' = InvoiceIds
        /\ \A b \in InvoiceIds : /\ DOMAIN invoices'[b] = DOMAIN invoices[b]
                                 /\ invoices'[b].kind = invoices[b].kind
    BY <2>1 DEF PeriodInv, Unmoved
  <2> QED
    BY <2>1, <2>2, <2>3 DEF PeriodInv, Unmoved
<1>3. ASSUME NEW n \in CashAmounts, NEW account \in CashAccounts, NEW type \in {"receipt", "payment"},
             CashOnAccount(type, account, n, d)
      PROVE  JournalsStamped /\ Unmoved' /\ UNCHANGED <<movements, closed>>
  <2>1. UNCHANGED <<invoices, movements, stocktakes, closed>>
    BY <1>3 DEF CashOnAccount, goods
  <2>2. JournalsStamped
    BY <1>3, JournalStamped DEF CashOnAccount
  <2> QED
    BY <2>1, <2>2 DEF PeriodInv, Unmoved
<1>4. ASSUME NEW n \in CashAmounts, NEW account \in CashAccounts, NEW to \in CashAccounts,
             TransferCash(account, to, n, d)
      PROVE  JournalsStamped /\ Unmoved' /\ UNCHANGED <<movements, closed>>
  <2>1. UNCHANGED <<invoices, movements, stocktakes, closed>>
    BY <1>4 DEF TransferCash, goods
  <2>2. JournalsStamped
    BY <1>4, JournalStamped DEF TransferCash
  <2> QED
    BY <2>1, <2>2 DEF PeriodInv, Unmoved
<1>5. JournalsStamped /\ Unmoved' /\ UNCHANGED <<movements, closed>>
  BY <1>2, <1>3, <1>4 DEF PostTransaction
<1> QED
  BY <1>1, <1>5 DEF Stamped, MovementsStamped

LEMMA ExpenseStamped ==
  ASSUME PeriodInv, NEW e \in ExpenseIds, NEW income \in BOOLEAN, NEW account \in CashAccounts,
         NEW n \in CashAmounts, NEW d \in Dates, PostExpense(e, income, account, n, d)
  PROVE  Unmoved' /\ Stamped
<1>1. UNCHANGED <<invoices, movements, stocktakes, closed>>
  BY DEF PostExpense, goods
<1>2. JournalsStamped
  BY JournalStamped DEF PostExpense
<1>3. TreasuryStamped
  BY ExpenseMoney DEF AddsRow, TreasuryStamped
<1> QED
  BY <1>1, <1>2, <1>3 DEF PeriodInv, Unmoved, Stamped, MovementsStamped

LEMMA PostChequeStamped ==
  ASSUME PeriodInv, NEW c \in ChequeIds, NEW direction, NEW n, NEW d, PostCheque(c, direction, n, d)
  PROVE  Unmoved' /\ Stamped
<1>1. UNCHANGED <<invoices, movements, stocktakes, closed, treasury>>
  BY DEF PostCheque, goods
<1>2. JournalsStamped
  BY JournalStamped DEF PostCheque
<1> QED
  BY <1>1, <1>2 DEF PeriodInv, Unmoved, Stamped, MovementsStamped, TreasuryStamped

LEMMA StatusStamped ==
  ASSUME PeriodInv, NEW c \in ChequeIds, NEW status \in {"cleared", "bounced", "returned", "spent"},
         NEW account \in CashAccounts, NEW d \in Dates, ChangeChequeStatus(c, status, account, d)
  PROVE  Unmoved' /\ Stamped
<1> DEFINE type == IF cheques[c].direction = "inbound" THEN "receipt" ELSE "payment"
           row == Transaction(type, account, cheques[c].amount, ChequeOf(c), d)
<1>1. UNCHANGED <<invoices, movements, stocktakes, closed>>
  BY DEF ChangeChequeStatus, goods
<1>2. JournalsStamped /\ Open(d)
  BY JournalStamped DEF ChangeChequeStatus, Journal
<1>3. treasury' = Append(treasury, row) \/ UNCHANGED treasury
  BY DEF ChangeChequeStatus, Record, ChequeOf
<1>4. type \in {"receipt", "payment"} /\ cheques[c].amount \in Nat
  BY DEF PeriodInv, ChequeInv, ChequeRow
<1> HIDE DEF type
<1>5. row \in TreasuryRow /\ row.date = d
  BY <1>4, TransactionIsRow, RefsApart
<1> HIDE DEF row
<1>6. TreasuryStamped
  BY <1>2, <1>3, <1>5 DEF TreasuryStamped
<1> QED
  BY <1>1, <1>2, <1>6 DEF PeriodInv, Unmoved, Stamped, MovementsStamped

LEMMA TransferStamped ==
  ASSUME PeriodInv, NEW t \in TransferIds, NEW from, NEW to, NEW p, NEW units, NEW d,
         TransferStock(t, from, to, p, units, d)
  PROVE  Unmoved' /\ Stamped
<1>1. /\ UNCHANGED <<journals, invoices, treasury, stocktakes, closed>>
      /\ movements[t] = <<>> /\ Open(d)
  BY DEF TransferStock, money
<1>2. PICK moves : movements' = [movements EXCEPT ![t] = Dated(moves, d)]
  BY DEF TransferStock
<1>3. t \in Documents /\ t \notin InvoiceIds /\ t \notin StocktakeIds /\ Unmoved
  BY RetailAssumption DEF Documents, PeriodInv
<1>4. MovementsStamped /\ DOMAIN movements' = Documents
  BY <1>1, <1>2, <1>3, MovesStamped
<1>5. \A doc \in Documents \ {t} : movements'[doc] = movements[doc]
  BY <1>2, <1>3 DEF Unmoved
<1> QED
  BY <1>1, <1>3, <1>4, <1>5 DEF Unmoved, Documents, Stamped, JournalsStamped, TreasuryStamped

LEMMA CountStamped ==
  ASSUME PeriodInv, NEW s \in StocktakeIds, NEW p, NEW units, NEW unitCost,
         CountStocktake(s, p, units, unitCost)
  PROVE  Unmoved' /\ Stamped
<1>1. UNCHANGED <<journals, invoices, treasury, movements, closed>>
  BY DEF CountStocktake, money
<1>2. PICK lines : stocktakes' = [stocktakes EXCEPT ![s].lines = lines]
  BY DEF CountStocktake
<1>3. /\ DOMAIN stocktakes' = StocktakeIds
      /\ \A b \in StocktakeIds : /\ DOMAIN stocktakes'[b] = DOMAIN stocktakes[b]
                                 /\ stocktakes'[b].status = stocktakes[b].status
  BY <1>2 DEF PeriodInv, Unmoved
<1> QED
  BY <1>1, <1>3 DEF PeriodInv, Unmoved, Stamped, JournalsStamped, TreasuryStamped, MovementsStamped

LEMMA NewStocktakeStamped ==
  ASSUME PeriodInv, NEW s \in StocktakeIds, NEW w, NEW d, NewStocktake(s, w, d)
  PROVE  Unmoved' /\ Stamped
<1>1. UNCHANGED <<journals, invoices, treasury, movements, closed>> /\ stocktakes[s].status = "absent"
  BY DEF NewStocktake, money
<1>2. PICK lines : stocktakes' = [stocktakes EXCEPT ![s] =
                     [status |-> "draft", warehouse |-> w, date |-> d, lines |-> lines]]
  BY DEF NewStocktake
<1>3. /\ DOMAIN stocktakes' = StocktakeIds
      /\ stocktakes'[s].status = "draft" /\ "status" \in DOMAIN stocktakes'[s]
      /\ \A b \in StocktakeIds \ {s} : stocktakes'[b] = stocktakes[b]
  BY <1>2 DEF PeriodInv, Unmoved
<1> QED
  BY <1>1, <1>3 DEF PeriodInv, Unmoved, Stamped, JournalsStamped, TreasuryStamped, MovementsStamped

LEMMA FinalizeStamped ==
  ASSUME PeriodInv, NEW s \in StocktakeIds, FinalizeStocktake(s)
  PROVE  Unmoved' /\ Stamped
<1> DEFINE d == stocktakes[s].date
<1>1. /\ UNCHANGED <<invoices, treasury, closed>> /\ stocktakes[s].status = "draft" /\ Open(d)
      /\ stocktakes' = [stocktakes EXCEPT ![s].status = "posted"]
  BY DEF FinalizeStocktake, CanFinalize, money
<1>2. PICK moves : movements' = [movements EXCEPT ![s] = Dated(moves, d)]
  BY DEF FinalizeStocktake
<1>3. JournalsStamped
  <2>1. ASSUME UNCHANGED journals PROVE JournalsStamped
    BY <2>1 DEF JournalsStamped
  <2>2. UNCHANGED journals \/ \E lines : Journal("stocktake", s, d, lines)
    BY DEF FinalizeStocktake
  <2> QED
    BY <2>1, <2>2, JournalStamped
<1> HIDE DEF d
<1>4. s \in Documents /\ s \notin InvoiceIds /\ Unmoved /\ movements[s] = <<>>
  BY <1>1, RetailAssumption DEF Documents, PeriodInv, Unmoved
<1>5. MovementsStamped /\ DOMAIN movements' = Documents
  BY <1>1, <1>2, <1>4, MovesStamped
<1>6. /\ DOMAIN stocktakes' = StocktakeIds
      /\ stocktakes'[s].status = "posted" /\ "status" \in DOMAIN stocktakes'[s]
      /\ \A b \in StocktakeIds \ {s} : stocktakes'[b] = stocktakes[b]
  BY <1>1, <1>4 DEF Unmoved
<1>7. \A doc \in Documents \ {s} : movements'[doc] = movements[doc]
  BY <1>2, <1>4 DEF Unmoved
<1> QED
  BY <1>1, <1>3, <1>4, <1>5, <1>6, <1>7 DEF Unmoved, Documents, Stamped, TreasuryStamped

LEMMA EveryStepStamped ==
  ASSUME PeriodInv, [Next]_vars
  PROVE  Unmoved' /\ Stamped
<1>1. ASSUME NEW p \in Periods, ClosePeriod(p) PROVE Unmoved' /\ Stamped
  <2>1. UNCHANGED <<journals, invoices, treasury, movements, stocktakes>> /\ closed \subseteq closed'
    BY <1>1 DEF ClosePeriod, money, goods
  <2> QED
    BY <2>1 DEF PeriodInv, Unmoved, Stamped, JournalsStamped, TreasuryStamped, MovementsStamped
<1>2. CASE UNCHANGED vars
  BY <1>2 DEF vars, PeriodInv, Unmoved, Stamped, JournalsStamped, TreasuryStamped, MovementsStamped
<1> QED
  BY <1>1, <1>2, IssueStamped, CashStamped, ExpenseStamped, PostChequeStamped, StatusStamped,
     TransferStamped, NewStocktakeStamped, CountStamped, FinalizeStamped DEF Next

LEMMA PeriodInvHolds == Spec => []PeriodInv
<1>1. Init => Unmoved
  BY DEF Init, Unmoved, NoInvoice, NoStocktake, Documents
<1>2. ChequeInv /\ Unmoved /\ [Next]_vars => Unmoved'
  BY EveryStepStamped DEF PeriodInv
<1> QED
  BY <1>1, <1>2, ChequeInvHolds, PTL DEF Spec, PeriodInv

\* An invoice is written once, on an open day, and only what is paid on it
\* changes; a cheque is issued once and leaves "pending" once, on open days.
InvoicesStamped ==
  \A i \in InvoiceIds :
    \/ invoices'[i] = invoices[i]
    \/ invoices[i].kind = "none" /\ Open(invoices'[i].date)
    \/ \E n : invoices'[i] = [invoices[i] EXCEPT !.paid = n]

ChequesStamped ==
  \A c \in ChequeIds :
    \/ cheques'[c] = cheques[c]
    \/ /\ cheques[c].status = "absent" /\ cheques'[c].status = "pending"
       /\ Open(cheques'[c].issued)
    \/ /\ cheques[c].status = "pending" /\ Open(cheques'[c].settled)
       /\ cheques'[c].status \notin {"absent", "pending"}
       /\ cheques'[c].issued = cheques[c].issued
       /\ cheques'[c].direction = cheques[c].direction /\ cheques'[c].amount = cheques[c].amount

LEMMA EveryInvoiceStamped ==
  ASSUME PeriodInv, [Next]_vars
  PROVE  InvoicesStamped
<1>1. ASSUME NEW i \in InvoiceIds, NEW form \in InvoiceForms, NEW o, NEW w, NEW d \in Dates,
             NEW account \in CashAccounts, IssueInvoice(i, form, o, w, d, account)
      PROVE  InvoicesStamped
  <2> DEFINE new == [kind |-> form.kind, orig |-> o, date |-> d, warehouse |-> w,
                     items |-> form.items, grand |-> Grand(form), paid |-> form.paid]
  <2>1. invoices[i].kind = "none" /\ Open(d) /\ invoices' = [invoices EXCEPT ![i] = new]
    BY <1>1 DEF IssueInvoice, WriteInvoice
  <2>2. new.date = d
    OBVIOUS
  <2> HIDE DEF new
  <2> QED
    BY <2>1, <2>2 DEF InvoicesStamped, PeriodInv, Unmoved
<1>2. ASSUME NEW i \in InvoiceIds, NEW type, NEW account, NEW n, NEW d,
             SettleInvoice(i, type, account, n, d)
      PROVE  InvoicesStamped
  <2>1. invoices' = [invoices EXCEPT ![i] = [invoices[i] EXCEPT !.paid = invoices[i].paid + n]]
    BY <1>2 DEF SettleInvoice
  <2> QED
    BY <2>1 DEF InvoicesStamped, PeriodInv, Unmoved
<1>3. ASSUME NEW d \in Dates, PostTransaction(d)
      PROVE  InvoicesStamped
  <2>1. ASSUME UNCHANGED invoices PROVE InvoicesStamped
    BY <2>1 DEF InvoicesStamped
  <2>2. \/ UNCHANGED invoices
        \/ \E i \in InvoiceIds : \E type, account, n : SettleInvoice(i, type, account, n, d)
    BY <1>3 DEF PostTransaction, CashOnAccount, TransferCash
  <2> QED
    BY <1>2, <2>1, <2>2
<1>4. ASSUME UNCHANGED invoices PROVE InvoicesStamped
  BY <1>4 DEF InvoicesStamped
<1>5. \A e, income, account, n, d : PostExpense(e, income, account, n, d) => UNCHANGED invoices
  BY DEF PostExpense
<1>6. \A c, direction, n, d : PostCheque(c, direction, n, d) => UNCHANGED invoices
  BY DEF PostCheque
<1>7. \A c, status, account, d : ChangeChequeStatus(c, status, account, d) => UNCHANGED invoices
  BY DEF ChangeChequeStatus
<1>8. \A t, from, to, p, units, d : TransferStock(t, from, to, p, units, d) => UNCHANGED invoices
  BY DEF TransferStock
<1>9. \A s, w, d : NewStocktake(s, w, d) => UNCHANGED invoices
  BY DEF NewStocktake
<1>10. \A s, p, units, unitCost : CountStocktake(s, p, units, unitCost) => UNCHANGED invoices
  BY DEF CountStocktake
<1>11. \A s : FinalizeStocktake(s) => UNCHANGED invoices
  BY DEF FinalizeStocktake
<1>12. \A p : ClosePeriod(p) => UNCHANGED invoices
  BY DEF ClosePeriod
<1> QED
  BY <1>1, <1>3, <1>4, <1>5, <1>6, <1>7, <1>8, <1>9, <1>10, <1>11, <1>12 DEF Next, vars

LEMMA EveryChequeStamped ==
  ASSUME PeriodInv, [Next]_vars
  PROVE  ChequesStamped
<1>1. ASSUME NEW c \in ChequeIds, NEW direction, NEW n, NEW d, PostCheque(c, direction, n, d)
      PROVE  ChequesStamped
  <2>1. /\ cheques[c].status = "absent" /\ Open(d)
        /\ cheques' = [cheques EXCEPT ![c] =
             [NoCheque EXCEPT !.status = "pending", !.direction = direction,
                              !.amount = n, !.issued = d]]
    BY <1>1 DEF PostCheque, Journal
  <2>2. cheques'[c].status = "pending" /\ cheques'[c].issued = d
    BY <2>1 DEF PeriodInv, ChequeInv, NoCheque
  <2> QED
    BY <2>1, <2>2 DEF ChequesStamped, PeriodInv, ChequeInv
<1>2. ASSUME NEW c \in ChequeIds, NEW status \in {"cleared", "bounced", "returned", "spent"},
             NEW account, NEW d, ChangeChequeStatus(c, status, account, d)
      PROVE  ChequesStamped
  <2>1. PICK to : cheques' = [cheques EXCEPT ![c].status = status, ![c].settled = d,
                                             ![c].account = to]
    BY <1>2 DEF ChangeChequeStatus
  <2>2. cheques[c].status = "pending" /\ Open(d)
    BY <1>2 DEF ChangeChequeStatus, MayChange, Journal
  <2> QED
    BY <2>1, <2>2 DEF ChequesStamped, PeriodInv, ChequeInv, ChequeRow
<1>3. ASSUME UNCHANGED cheques PROVE ChequesStamped
  BY <1>3 DEF ChequesStamped
<1>4. \A i, form, o, w, d, account : IssueInvoice(i, form, o, w, d, account) => UNCHANGED cheques
  BY DEF IssueInvoice, WriteInvoice
<1>5. \A d : PostTransaction(d) => UNCHANGED cheques
  <2>1. \A i, type, account, n, d : SettleInvoice(i, type, account, n, d) => UNCHANGED cheques
    BY DEF SettleInvoice
  <2>2. \A type, account, n, d : CashOnAccount(type, account, n, d) => UNCHANGED cheques
    BY DEF CashOnAccount
  <2>3. \A from, to, n, d : TransferCash(from, to, n, d) => UNCHANGED cheques
    BY DEF TransferCash
  <2> QED
    BY <2>1, <2>2, <2>3 DEF PostTransaction
<1>6. \A e, income, account, n, d : PostExpense(e, income, account, n, d) => UNCHANGED cheques
  BY DEF PostExpense
<1>7. \A t, from, to, p, units, d : TransferStock(t, from, to, p, units, d) => UNCHANGED cheques
  BY DEF TransferStock, money
<1>8. \A s, w, d : NewStocktake(s, w, d) => UNCHANGED cheques
  BY DEF NewStocktake, money
<1>9. \A s, p, units, unitCost : CountStocktake(s, p, units, unitCost) => UNCHANGED cheques
  BY DEF CountStocktake, money
<1>10. \A s : FinalizeStocktake(s) => UNCHANGED cheques
  BY DEF FinalizeStocktake, money
<1>11. \A p : ClosePeriod(p) => UNCHANGED cheques
  BY DEF ClosePeriod, money
<1> QED
  BY <1>1, <1>2, <1>3, <1>4, <1>5, <1>6, <1>7, <1>8, <1>9, <1>10, <1>11 DEF Next, vars

LEMMA RowsFrozen ==
  ASSUME PeriodInv, Stamped, NEW p \in closed
  PROVE  p \in closed' /\ DatedIn(p)' = DatedIn(p)
<1> DEFINE InJ == {j \in journals : PeriodOf[j.date] = p}
           InT == {k \in DOMAIN treasury : PeriodOf[treasury[k].date] = p}
           InM(doc) == {k \in DOMAIN movements[doc] : PeriodOf[movements[doc][k].date] = p}
<1>1. InJ' = InJ
  BY DEF Stamped, JournalsStamped, Open
<1>2. InT' = InT /\ \A k \in InT : treasury'[k] = treasury[k]
  <2>1. CASE UNCHANGED treasury
    BY <2>1
  <2>2. ASSUME NEW row \in TreasuryRow, treasury' = Append(treasury, row), Open(row.date)
        PROVE  InT' = InT /\ \A k \in InT : treasury'[k] = treasury[k]
    BY <2>2, RowAppended DEF PeriodInv, ChequeInv, Open
  <2> QED
    BY <2>1, <2>2 DEF Stamped, TreasuryStamped
<1>3. ASSUME NEW doc \in Documents
      PROVE  InM(doc)' = InM(doc) /\ \A k \in InM(doc) : movements'[doc][k] = movements[doc][k]
  BY DEF Stamped, MovementsStamped, Open
<1>4. {<<k, treasury[k]>> : k \in InT}' = {<<k, treasury[k]>> : k \in InT}
  BY <1>2
<1>5. [doc \in Documents |-> {<<k, movements[doc][k]>> : k \in InM(doc)}]'
        = [doc \in Documents |-> {<<k, movements[doc][k]>> : k \in InM(doc)}]
  <2>1. ASSUME NEW doc \in Documents
        PROVE  {<<k, movements'[doc][k]>> : k \in InM(doc)'}
                 = {<<k, movements[doc][k]>> : k \in InM(doc)}
    BY <1>3
  <2> QED
    BY <2>1
<1> QED
  BY <1>1, <1>4, <1>5 DEF DatedIn, Stamped

LEMMA DocumentsFrozen ==
  ASSUME PeriodInv, InvoicesStamped, ChequesStamped, NEW p \in closed
  PROVE  DocumentsIn(p)' = DocumentsIn(p)
<1> DEFINE Row(i) == [invoices[i] EXCEPT !.paid = 0]
           InI == {i \in InvoiceIds : InvoiceIn(i, p)}
           InC == {c \in ChequeIds : IssuedIn(c, p)}
           InS == {c \in ChequeIds : SettledIn(c, p)}
<1>1. ASSUME NEW i \in InvoiceIds
      PROVE  InvoiceIn(i, p)' <=> InvoiceIn(i, p)
  <2>1. CASE invoices'[i] = invoices[i]
    BY <2>1 DEF InvoiceIn
  <2>2. CASE invoices[i].kind = "none" /\ Open(invoices'[i].date)
    BY <2>2 DEF InvoiceIn, Open
  <2>3. ASSUME NEW n, invoices'[i] = [invoices[i] EXCEPT !.paid = n]
        PROVE  InvoiceIn(i, p)' <=> InvoiceIn(i, p)
    BY <2>3 DEF InvoiceIn, PeriodInv, Unmoved
  <2> QED
    BY <2>1, <2>2, <2>3 DEF InvoicesStamped
<1>2. ASSUME NEW i \in InI
      PROVE  Row(i)' = Row(i)
  <2>1. i \in InvoiceIds /\ invoices[i].kind # "none"
    BY <1>2 DEF InvoiceIn
  <2> QED
    BY <2>1 DEF InvoicesStamped
<1>3. {<<i, Row(i)>> : i \in InI}' = {<<i, Row(i)>> : i \in InI}
  BY <1>1, <1>2
<1>4. ASSUME NEW c \in ChequeIds
      PROVE  /\ IssuedIn(c, p)' <=> IssuedIn(c, p)
             /\ SettledIn(c, p)' <=> SettledIn(c, p)
             /\ IssuedIn(c, p) => /\ cheques'[c].direction = cheques[c].direction
                                  /\ cheques'[c].amount = cheques[c].amount
             /\ SettledIn(c, p) => cheques'[c] = cheques[c]
  BY DEF ChequesStamped, IssuedIn, SettledIn, Open
<1>5. {<<c, cheques[c].direction, cheques[c].amount>> : c \in InC}'
        = {<<c, cheques[c].direction, cheques[c].amount>> : c \in InC}
  BY <1>4
<1>6. {<<c, cheques[c]>> : c \in InS}' = {<<c, cheques[c]>> : c \in InS}
  BY <1>4
<1> QED
  BY <1>3, <1>5, <1>6 DEF DocumentsIn

(* ClosedPeriodFrozen: of the commands that carry a date, none adds a      *)
(* journal, a treasury row, a movement, an invoice or a cheque event to a  *)
(* closed period, changes one there or takes one away.                     *)
THEOREM FrozenCorrect == Spec => ClosedPeriodFrozen
<1>1. PeriodInv /\ [Next]_vars =>
        [\A p \in closed :
           p \in closed' /\ DatedIn(p)' = DatedIn(p) /\ DocumentsIn(p)' = DocumentsIn(p)]_vars
  BY EveryStepStamped, EveryInvoiceStamped, EveryChequeStamped, RowsFrozen, DocumentsFrozen
<1> QED
  BY <1>1, PeriodInvHolds, PTL DEF Spec, ClosedPeriodFrozen

-----------------------------------------------------------------------------
(* The contract of returns: the caps of recordCash and issueInvoice keep a *)
(* refund within the credit, and the preview of a return says what its     *)
(* posting does.                                                           *)

\* The conjunct that makes RefundsCovered inductive is the type: the amounts
\* of the code are whole rials (RetailFinanceCore.amount).
SettlementInv == SettlementTypeOK /\ RefundsCovered

(* The caps of the code are enough: they establish and keep the invariant. *)
LEMMA SettlementInvStep == SettlementInv /\ [SettlementNext]_settlementVars => SettlementInv'
<1> SUFFICES ASSUME SettlementInv, [SettlementNext]_settlementVars
             PROVE  SettlementInv'
  OBVIOUS
<1>0. Amounts \subseteq Nat
  BY SettlementAssumption
<1>1. ASSUME NEW o \in Originals, NEW n \in Amounts, NEW g \in Amounts, Issue(o, g, n)
      PROVE  SettlementInv'
  <2>1. paid[o] = 0 /\ returned[o] = 0 /\ refunded[o] = 0
    BY <1>1 DEF Issue, SettlementInv, SettlementTypeOK, RefundsCovered, Credit, NetOf, Max0
  <2>2. SettlementTypeOK'
    BY <1>0, <1>1 DEF Issue, SettlementInv, SettlementTypeOK
  <2>3. ASSUME NEW q \in Originals
        PROVE  /\ paid'[q] <= gross'[q] /\ returned'[q] <= gross'[q]
               /\ refunded'[q] <= Credit(q)'
    <3>1. CASE q = o
      BY <1>0, <1>1, <2>1, <3>1 DEF Issue, SettlementInv, SettlementTypeOK, Credit, NetOf, Max0
    <3>2. CASE q # o
      BY <1>1, <3>2
         DEF Issue, SettlementInv, SettlementTypeOK, RefundsCovered, Credit, NetOf, Max0
    <3> QED
      BY <3>1, <3>2
  <2> QED
    BY <2>2, <2>3 DEF SettlementInv, RefundsCovered
<1>2. ASSUME NEW o \in Originals, NEW n \in Amounts, Collect(o, n)
      PROVE  SettlementInv'
  BY <1>0, <1>2
     DEF Collect, SettlementInv, SettlementTypeOK, RefundsCovered, Credit, Owed, NetOf, Max0
<1>3. ASSUME NEW o \in Originals, NEW n \in Amounts, Return(o, n)
      PROVE  SettlementInv'
  BY <1>0, <1>3 DEF Return, SettlementInv, SettlementTypeOK, RefundsCovered, Credit, NetOf, Max0
<1>4. ASSUME NEW o \in Originals, NEW n \in Amounts, Refund(o, n)
      PROVE  SettlementInv'
  BY <1>0, <1>4 DEF Refund, SettlementInv, SettlementTypeOK, RefundsCovered, Credit, NetOf, Max0
<1>5. CASE UNCHANGED settlementVars
  BY <1>5 DEF settlementVars, SettlementInv, SettlementTypeOK, RefundsCovered, Credit, NetOf, Max0
<1> QED
  BY <1>1, <1>2, <1>3, <1>4, <1>5 DEF SettlementNext

LEMMA SettlementInvHolds == SettlementSpec => []SettlementInv
<1>1. SettlementInit => SettlementInv
  BY DEF SettlementInit, SettlementInv, SettlementTypeOK, RefundsCovered, Credit, NetOf, Max0
<1> QED
  BY <1>1, SettlementInvStep, PTL DEF SettlementSpec

(* No order of receipts, returns and refunds hands back more than was paid *)
(* beyond the net invoice.                                                 *)
THEOREM RefundsCorrect == SettlementSpec => []RefundsCovered
<1>1. SettlementInv => RefundsCovered
  BY DEF SettlementInv
<1> QED
  BY <1>1, SettlementInvHolds, PTL

(* After a refund nothing is owed on the invoice and at least its net      *)
(* amount is retained.                                                     *)
THEOREM RefundsSettled == SettlementSpec => []NoRefundWhileOwed
<1>1. SettlementInv => NoRefundWhileOwed
  BY DEF SettlementInv, SettlementTypeOK, RefundsCovered, NoRefundWhileOwed, Credit, Owed, NetOf, Max0
<1> QED
  BY <1>1, SettlementInvHolds, PTL

(* RefundsSound: both of the above, as the run checks them.                *)
THEOREM RefundsSoundCorrect == SettlementSpec => []RefundsSound
  BY RefundsCorrect, RefundsSettled, PTL DEF RefundsSound

(* Once money has been paid beyond the net invoice, it is never collected  *)
(* on again.                                                               *)
THEOREM CollectionStops == SettlementSpec => CreditStopsCollection
<1> DEFINE Stops == \A o \in Originals : Credit(o) > 0 => paid'[o] = paid[o]
<1>1. SettlementInv /\ [SettlementNext]_settlementVars => [Stops]_settlementVars
  <2> SUFFICES ASSUME SettlementInv, SettlementNext PROVE Stops
    BY DEF Stops
  <2>0. Amounts \subseteq Nat
    BY SettlementAssumption
  <2>1. ASSUME NEW o \in Originals, NEW n \in Amounts, NEW g \in Amounts, Issue(o, g, n)
        PROVE  Stops
    BY <2>0, <2>1 DEF Issue, SettlementInv, SettlementTypeOK, RefundsCovered, Credit, NetOf, Max0
  <2>2. ASSUME NEW o \in Originals, NEW n \in Amounts, Collect(o, n)
        PROVE  Stops
    BY <2>0, <2>2 DEF Collect, SettlementInv, SettlementTypeOK, Credit, Owed, NetOf, Max0
  <2>3. ASSUME NEW o \in Originals, NEW n \in Amounts, Return(o, n) \/ Refund(o, n)
        PROVE  Stops
    BY <2>3 DEF Return, Refund
  <2> QED
    BY <2>1, <2>2, <2>3 DEF SettlementNext
<1> QED
  BY <1>1, SettlementInvHolds, PTL DEF SettlementSpec, CreditStopsCollection, Stops

(* A preview remembers an invoice that was issued; what it read has only   *)
(* grown since, and its figures are those of what it read.                 *)
ShownRow(p) ==
  LET o == p.order
  IN  /\ o \in Originals /\ p.amount \in Nat \ {0}
      /\ gross[o] > 0
      /\ p.paid \in Nat /\ p.paid <= paid[o]
      /\ p.returned \in Nat /\ p.returned <= returned[o]
      /\ p.allowed <=> p.amount <= gross[o] - p.returned
      /\ p.figures.receivableAfter = Max0(gross[o] - p.returned - p.amount - p.paid)
      /\ p.figures.customerCreditAfter = Max0(p.paid - (gross[o] - p.returned - p.amount))
      /\ p.figures.allocatedToReceivable =
           Max0(gross[o] - p.returned - p.paid) - Max0(gross[o] - p.returned - p.amount - p.paid)

PreviewInv == SettlementInv /\ \A p \in shown : ShownRow(p)

LEMMA SettlementStep ==
  ASSUME SettlementInv, SettlementNext, NEW o \in Originals, gross[o] > 0
  PROVE  gross'[o] = gross[o] /\ paid'[o] >= paid[o] /\ returned'[o] >= returned[o]
<1>0. Amounts \subseteq Nat
  BY SettlementAssumption
<1>1. ASSUME NEW q \in Originals, NEW n \in Amounts, NEW g \in Amounts, Issue(q, g, n)
      PROVE  gross'[o] = gross[o] /\ paid'[o] >= paid[o] /\ returned'[o] >= returned[o]
  BY <1>1 DEF Issue, SettlementInv, SettlementTypeOK
<1>2. ASSUME NEW q \in Originals, NEW n \in Amounts, Collect(q, n) \/ Return(q, n) \/ Refund(q, n)
      PROVE  gross'[o] = gross[o] /\ paid'[o] >= paid[o] /\ returned'[o] >= returned[o]
  BY <1>0, <1>2 DEF Collect, Return, Refund, SettlementInv, SettlementTypeOK
<1> QED
  BY <1>1, <1>2 DEF SettlementNext

LEMMA PreviewInvHolds == PreviewSpec => []PreviewInv
<1>1. PreviewInit => PreviewInv
  BY DEF PreviewInit, PreviewInv, SettlementInit, SettlementInv, SettlementTypeOK, RefundsCovered,
         Credit, NetOf, Max0
<1>2. PreviewInv /\ [PreviewNext]_previewVars => PreviewInv'
  <2> SUFFICES ASSUME PreviewInv, [PreviewNext]_previewVars PROVE PreviewInv'
    OBVIOUS
  <2>1. CASE SettlementNext /\ UNCHANGED shown
    <3>1. SettlementInv'
      BY <2>1, SettlementInvStep DEF PreviewInv
    <3>2. ASSUME NEW p \in shown PROVE ShownRow(p)'
      <4>1. ShownRow(p) /\ SettlementInv
        BY DEF PreviewInv
      <4>2. /\ gross'[p.order] = gross[p.order] /\ paid'[p.order] >= paid[p.order]
            /\ returned'[p.order] >= returned[p.order]
        BY <2>1, <4>1, SettlementStep DEF ShownRow
      <4>3. /\ paid[p.order] \in Nat /\ paid'[p.order] \in Nat
            /\ returned[p.order] \in Nat /\ returned'[p.order] \in Nat
        BY <3>1, <4>1 DEF ShownRow, SettlementInv, SettlementTypeOK
      <4>4. /\ p.paid \in Nat /\ p.paid <= paid'[p.order]
            /\ p.returned \in Nat /\ p.returned <= returned'[p.order]
        <5>1. /\ p.paid \in Nat /\ p.paid <= paid[p.order]
              /\ p.returned \in Nat /\ p.returned <= returned[p.order]
          BY <4>1 DEF ShownRow
        <5> QED
          BY <4>2, <4>3, <5>1
      <4> QED
        BY <4>1, <4>2, <4>4, Zenon DEF ShownRow
    <3> QED
      BY <2>1, <3>1, <3>2 DEF PreviewInv
  <2>2. ASSUME NEW o \in Originals, NEW n \in Amounts, Preview(o, n) PROVE PreviewInv'
    <3>1. SettlementInv' /\ UNCHANGED <<gross, paid, returned, refunded>>
      BY <2>2 DEF Preview, PreviewInv, settlementVars, SettlementInv, SettlementTypeOK,
                  RefundsCovered, Credit, NetOf
    <3>2. /\ gross[o] \in Nat /\ paid[o] \in Nat /\ returned[o] \in Nat /\ n \in Nat \ {0}
          /\ paid[o] <= gross[o] /\ returned[o] <= gross[o] /\ gross[o] > 0
      BY <2>2, SettlementAssumption
         DEF Preview, PreviewInv, SettlementInv, SettlementTypeOK, RefundsCovered
    <3>3. PICK p : /\ shown' = {p}
                   /\ p = [order |-> o, amount |-> n, paid |-> paid[o], returned |-> returned[o],
                           allowed |-> PreviewAllowed(o, n),
                           figures |-> PreviewSaleReturnSettlement(o, n)]
      BY <2>2 DEF Preview
    <3>4. /\ p.order = o /\ p.amount = n /\ p.paid = paid[o] /\ p.returned = returned[o]
          /\ p.allowed = PreviewAllowed(o, n) /\ p.figures = PreviewSaleReturnSettlement(o, n)
      BY <3>3
    <3>5. PreviewAllowed(o, n) <=> n <= gross[o] - returned[o]
      BY <3>2 DEF PreviewAllowed
    <3>6. /\ p.figures.receivableAfter = Max0(gross[o] - returned[o] - n - paid[o])
          /\ p.figures.customerCreditAfter = Max0(paid[o] - (gross[o] - returned[o] - n))
          /\ p.figures.allocatedToReceivable =
               Max0(gross[o] - returned[o] - paid[o]) - Max0(gross[o] - returned[o] - n - paid[o])
      BY <3>2, <3>4 DEF PreviewSaleReturnSettlement, Max0
    <3>7. ShownRow(p)
      <4>1. p.allowed <=> p.amount <= gross[o] - p.returned
        BY <3>4, <3>5, Zenon
      <4>2. paid[o] <= paid[o] /\ returned[o] <= returned[o]
        BY <3>2
      <4> QED
        BY <3>2, <3>4, <3>6, <4>1, <4>2, Zenon DEF ShownRow
    <3>8. ShownRow(p)'
      BY <3>1, <3>7 DEF ShownRow
    <3> QED
      BY <3>1, <3>3, <3>8 DEF PreviewInv
  <2>3. CASE UNCHANGED previewVars
    BY <2>3 DEF previewVars, settlementVars, PreviewInv, ShownRow, SettlementInv, SettlementTypeOK,
                RefundsCovered, Credit, NetOf
  <2> QED
    BY <2>1, <2>2, <2>3 DEF PreviewNext
<1> QED
  BY <1>1, <1>2, PTL DEF PreviewSpec

(* PreviewFaithful: whatever receipts, refunds and returns come between a  *)
(* preview and the posting of its return, the posting leaves no more debt  *)
(* and no less credit than was shown, exactly that if nothing came between;*)
(* a refused amount is never posted, an allowed one can be until the next  *)
(* return.                                                                 *)
THEOREM PreviewCorrect == PreviewSpec => PreviewFaithful
<1> DEFINE Posted == \A p \in shown : Return(p.order, p.amount) => PostedAsShown(p)
           Told == \A p \in shown : RefusedAsShown(p)
<1>1. PreviewInv => [Posted]_previewVars
  <2> SUFFICES ASSUME PreviewInv, NEW p \in shown, Return(p.order, p.amount)
               PROVE  PostedAsShown(p)
    BY DEF Posted
  <2> DEFINE o == p.order
             n == p.amount
  <2>1. ShownRow(p) /\ SettlementInv /\ o \in Originals /\ n \in Nat \ {0}
    BY DEF PreviewInv, ShownRow
  <2>2. /\ gross[o] \in Nat /\ paid[o] \in Nat /\ returned[o] \in Nat
        /\ paid[o] <= gross[o] /\ returned[o] <= gross[o]
    BY <2>1 DEF SettlementInv, SettlementTypeOK, RefundsCovered
  <2>3. /\ gross'[o] = gross[o] /\ paid'[o] = paid[o] /\ returned'[o] = returned[o] + n
        /\ n <= gross[o] - returned[o]
    BY <2>1, <2>2 DEF Return, NetOf, SettlementInv, SettlementTypeOK
  <2>4. p.allowed <=> n <= gross[o] - p.returned
    BY <2>1, Zenon DEF ShownRow
  <2>5. /\ p.paid \in Nat /\ p.paid <= paid[o] /\ p.returned \in Nat /\ p.returned <= returned[o]
        /\ p.figures.receivableAfter = Max0(gross[o] - p.returned - n - p.paid)
        /\ p.figures.customerCreditAfter = Max0(p.paid - (gross[o] - p.returned - n))
        /\ p.figures.allocatedToReceivable =
             Max0(gross[o] - p.returned - p.paid) - Max0(gross[o] - p.returned - n - p.paid)
    BY <2>1, Zenon DEF ShownRow
  <2>6. n <= gross[o] - p.returned
    BY <2>1, <2>2, <2>3, <2>5
  <2>7. /\ Owed(o)' = Max0(gross[o] - returned[o] - n - paid[o])
        /\ Credit(o)' = Max0(paid[o] - (gross[o] - returned[o] - n))
        /\ Owed(o) = Max0(gross[o] - returned[o] - paid[o])
    BY <2>1, <2>2, <2>3 DEF Owed, Credit, NetOf, Max0
  <2> HIDE DEF o, n
  <2>8. /\ Owed(o)' <= p.figures.receivableAfter
        /\ Credit(o)' >= p.figures.customerCreditAfter
    BY <2>1, <2>2, <2>5, <2>7 DEF Max0
  <2>9. ASSUME paid[o] = p.paid, returned[o] = p.returned
        PROVE  /\ Owed(o)' = p.figures.receivableAfter
               /\ Credit(o)' = p.figures.customerCreditAfter
               /\ Owed(o) - Owed(o)' = p.figures.allocatedToReceivable
    BY <2>5, <2>7, <2>9
  <2> QED
    BY <2>4, <2>6, <2>8, <2>9, Zenon DEF PostedAsShown, o
<1>2. PreviewInv => Told
  <2> SUFFICES ASSUME PreviewInv, NEW p \in shown PROVE RefusedAsShown(p)
    BY DEF Told
  <2>1. ShownRow(p) /\ SettlementInv /\ p.order \in Originals
    BY DEF PreviewInv, ShownRow
  <2>2. /\ gross[p.order] \in Nat /\ returned[p.order] \in Nat
    BY <2>1 DEF SettlementInv, SettlementTypeOK
  <2>3. p.allowed <=> p.amount <= gross[p.order] - p.returned
    BY <2>1, Zenon DEF ShownRow
  <2>4. p.amount \in Nat /\ p.returned \in Nat /\ p.returned <= returned[p.order]
    BY <2>1, Zenon DEF ShownRow
  <2>5. p.amount <= NetOf(p.order) => p.amount <= gross[p.order] - p.returned
    BY <2>2, <2>4 DEF NetOf
  <2>6. returned[p.order] = p.returned => NetOf(p.order) = gross[p.order] - p.returned
    BY DEF NetOf
  <2> QED
    BY <2>3, <2>5, <2>6, Zenon DEF RefusedAsShown
<1> QED
  BY <1>1, <1>2, PreviewInvHolds, PTL DEF PreviewSpec, PreviewFaithful, Posted, Told

-----------------------------------------------------------------------------
(* What a command does to the invoices: it issues one, settles one, or     *)
(* leaves them alone.                                                      *)

InvoiceRow ==
  [kind: {"none"} \cup OriginalKinds \cup ReturnKinds, orig: InvoiceIds \cup {None},
   date: Dates \cup {0}, warehouse: Warehouses \cup {None},
   items: {<<>>} \cup {form.items : form \in InvoiceForms}, grand: Nat, paid: Nat]

\* The invoices and returns that were issued: no more than finitely many.
Issued == {i \in InvoiceIds : invoices[i].kind # "none"}

InvoiceInv ==
  /\ invoices \in [InvoiceIds -> InvoiceRow]
  /\ IsFiniteSet(Issued)
  /\ \A i \in InvoiceIds :
       /\ invoices[i].kind = "none" => invoices[i] = NoInvoice
       /\ invoices[i].kind \in ReturnKinds =>
            /\ invoices[i].orig \in InvoiceIds
            /\ invoices[invoices[i].orig].kind \in OriginalKinds
       /\ invoices[i].paid <= invoices[i].grand

\* What a command may do to the invoices: issue one, settle one, or nothing.
Issues(i, form, o, w, d) ==
  /\ invoices[i].kind = "none"
  /\ IF form.kind \in ReturnKinds THEN o \in InvoiceIds /\ ReturnAllowed(form, o) ELSE o = None
  /\ invoices' = [invoices EXCEPT ![i] =
       [kind |-> form.kind, orig |-> o, date |-> d, warehouse |-> w, items |-> form.items,
        grand |-> Grand(form), paid |-> form.paid]]

Settles(i, type, n) ==
  CanSettle(i, type, n) /\ invoices' = [invoices EXCEPT ![i].paid = @ + n]

InvoiceStep ==
  \/ UNCHANGED invoices
  \/ \E i \in InvoiceIds, form \in InvoiceForms, o \in InvoiceIds \cup {None}, w \in Warehouses,
        d \in Dates : Issues(i, form, o, w, d)
  \/ \E i \in InvoiceIds, type \in {"receipt", "payment"}, n \in CashAmounts : Settles(i, type, n)

LEMMA EveryInvoiceStep ==
  ASSUME [Next]_vars
  PROVE  InvoiceStep
<1>1. ASSUME NEW i \in InvoiceIds, NEW form \in InvoiceForms, NEW o \in InvoiceIds \cup {None},
             NEW w \in Warehouses, NEW d \in Dates, NEW account \in CashAccounts,
             IssueInvoice(i, form, o, w, d, account)
      PROVE  InvoiceStep
  <2>1. Issues(i, form, o, w, d)
    BY <1>1 DEF IssueInvoice, WriteInvoice, Issues
  <2> QED
    BY <2>1 DEF InvoiceStep
<1>2. ASSUME NEW d \in Dates, PostTransaction(d)
      PROVE  InvoiceStep
  <2>1. ASSUME NEW n \in CashAmounts, NEW account \in CashAccounts,
               NEW type \in {"receipt", "payment"}, NEW i \in InvoiceIds,
               SettleInvoice(i, type, account, n, d)
        PROVE  InvoiceStep
    <3>1. Settles(i, type, n)
      BY <2>1 DEF SettleInvoice, Settles
    <3> QED
      BY <3>1 DEF InvoiceStep
  <2> QED
    BY <1>2, <2>1 DEF PostTransaction, CashOnAccount, TransferCash, InvoiceStep
<1>3. ASSUME UNCHANGED invoices
      PROVE  InvoiceStep
  BY <1>3 DEF InvoiceStep
<1>4. ASSUME NEW d \in Dates, NEW e \in ExpenseIds, NEW income \in BOOLEAN,
             NEW account \in CashAccounts, NEW n \in CashAmounts, PostExpense(e, income, account, n, d)
      PROVE  UNCHANGED invoices
  BY <1>4 DEF PostExpense
<1>5. ASSUME NEW d \in Dates, NEW c \in ChequeIds, NEW direction, NEW n \in CashAmounts,
             PostCheque(c, direction, n, d)
      PROVE  UNCHANGED invoices
  BY <1>5 DEF PostCheque
<1>6. ASSUME NEW d \in Dates, NEW c \in ChequeIds, NEW status, NEW account \in CashAccounts,
             ChangeChequeStatus(c, status, account, d)
      PROVE  UNCHANGED invoices
  BY <1>6 DEF ChangeChequeStatus
<1>7. ASSUME NEW d \in Dates, NEW t \in TransferIds, NEW from, NEW to, NEW p, NEW units,
             TransferStock(t, from, to, p, units, d)
      PROVE  UNCHANGED invoices
  BY <1>7 DEF TransferStock
<1>8. ASSUME NEW s \in StocktakeIds, \/ \E w \in Warehouses, d \in Dates : NewStocktake(s, w, d)
                                   \/ \E p, units, unitCost : CountStocktake(s, p, units, unitCost)
                                   \/ FinalizeStocktake(s)
      PROVE  UNCHANGED invoices
  BY <1>8 DEF NewStocktake, CountStocktake, FinalizeStocktake
<1>9. ASSUME NEW p \in Periods, ClosePeriod(p)
      PROVE  UNCHANGED invoices
  BY <1>9 DEF ClosePeriod
<1>10. CASE UNCHANGED vars
  BY <1>3, <1>10 DEF vars
<1> QED
  BY <1>1, <1>2, <1>3, <1>4, <1>5, <1>6, <1>7, <1>8, <1>9, <1>10 DEF Next

\* An accepted form is a sum of naturals: its totals are naturals, its total
\* covers what is paid at once.
LEMMA FormGrand ==
  ASSUME NEW form \in InvoiceForms
  PROVE  /\ form.kind \in OriginalKinds \cup ReturnKinds
         /\ Grand(form) \in Nat /\ form.paid \in Nat /\ form.paid <= Grand(form)
         /\ Net(form) \in Nat /\ form.vat \in Nat
<1>1. /\ form \in Form /\ Net(form) >= 0 /\ form.paid <= Grand(form)
  BY RetailAssumption
<1> DEFINE totals == Totals(form.items)
<1>2. /\ form.items \in Seq([item: Products \cup Services, units: Nat, total: Nat])
      /\ form.kind \in OriginalKinds \cup ReturnKinds
      /\ form.discount \in Nat /\ form.vat \in Nat /\ form.paid \in Nat
  BY <1>1 DEF Form
<1>3. DOMAIN totals = 1 .. Len(form.items) /\ \A k \in DOMAIN totals : totals[k] \in Int
  <2> DEFINE R == [item: Products \cup Services, units: Nat, total: Nat]
  <2>0. \A x \in R : x.total \in Int
    OBVIOUS
  <2> HIDE DEF R
  <2>1. ASSUME NEW items \in Seq(R)
        PROVE  /\ DOMAIN Totals(items) = 1 .. Len(items)
               /\ \A k \in DOMAIN Totals(items) : Totals(items)[k] \in Int
    <3>1. \A k \in DOMAIN items : items[k].total \in Int
      BY <2>0
    <3> QED
      BY <3>1 DEF Totals
  <2> QED
    BY <1>2, <2>1 DEF R
<1>4. IsFiniteSet(DOMAIN totals)
  BY <1>2, <1>3, FS_Interval
<1>5. SumFunction(totals) \in Int
  <2> HIDE DEF totals
  <2> QED
    BY <1>3, <1>4, SumInt
<1>6. Net(form) \in Int
  BY <1>2, <1>5 DEF Net
<1> QED
  BY <1>1, <1>2, <1>6 DEF Grand

LEMMA IssuesKeeps ==
  ASSUME InvoiceInv, NEW i \in InvoiceIds, NEW form \in InvoiceForms,
         NEW o \in InvoiceIds \cup {None}, NEW w \in Warehouses, NEW d \in Dates,
         Issues(i, form, o, w, d)
  PROVE  /\ InvoiceInv'
         /\ Issued' = Issued \cup {i} /\ i \notin Issued
         /\ invoices'[i].kind = form.kind /\ invoices'[i].orig = o
         /\ invoices'[i].grand = Grand(form) /\ invoices'[i].paid = form.paid
         /\ \A b \in InvoiceIds \ {i} : invoices'[b] = invoices[b]
<1> DEFINE row == [kind |-> form.kind, orig |-> o, date |-> d, warehouse |-> w,
                   items |-> form.items, grand |-> Grand(form), paid |-> form.paid]
<1>1. row \in InvoiceRow
  BY FormGrand DEF InvoiceRow
<1>2. /\ row.kind = form.kind /\ row.orig = o /\ row.grand = Grand(form) /\ row.paid = form.paid
      /\ row.kind \in OriginalKinds \cup ReturnKinds
      /\ row.paid <= row.grand
  BY FormGrand
<1>3. invoices' = [invoices EXCEPT ![i] = row]
  BY DEF Issues
<1> HIDE DEF row
<1>4. /\ invoices' \in [InvoiceIds -> InvoiceRow] /\ invoices'[i] = row
      /\ \A b \in InvoiceIds \ {i} : invoices'[b] = invoices[b]
  BY <1>1, <1>3 DEF InvoiceInv
<1>5. "none" \notin OriginalKinds \cup ReturnKinds /\ OriginalKinds \cap ReturnKinds = {}
  BY DEF OriginalKinds, ReturnKinds
<1>6. Issued' = Issued \cup {i} /\ i \notin Issued
  BY <1>2, <1>4, <1>5 DEF Issued, Issues
<1>7. IsFiniteSet(Issued')
  BY <1>6, FS_AddElement DEF InvoiceInv
<1>8. \A b \in InvoiceIds : invoices[b].kind \in ReturnKinds =>
        invoices[b].orig \in InvoiceIds /\ invoices[b].orig # i
  BY <1>5 DEF InvoiceInv, Issues
<1>9. row.kind \in ReturnKinds =>
        row.orig \in InvoiceIds /\ row.orig # i /\ invoices[row.orig].kind \in OriginalKinds
  BY <1>2, <1>5 DEF Issues, ReturnAllowed, ValidOriginals, OriginalKinds
<1>10. ASSUME NEW b \in InvoiceIds
       PROVE  /\ invoices'[b].kind = "none" => invoices'[b] = NoInvoice
              /\ invoices'[b].kind \in ReturnKinds =>
                   /\ invoices'[b].orig \in InvoiceIds
                   /\ invoices'[invoices'[b].orig].kind \in OriginalKinds
              /\ invoices'[b].paid <= invoices'[b].grand
  <2>1. CASE b = i
    BY <1>2, <1>4, <1>5, <1>9, <2>1
  <2>2. CASE b # i
    BY <1>4, <1>8, <2>2 DEF InvoiceInv
  <2> QED
    BY <2>1, <2>2
<1>11. InvoiceInv'
  BY <1>4, <1>7, <1>10 DEF InvoiceInv
<1> QED
  BY <1>2, <1>4, <1>6, <1>11

LEMMA SettlesKeeps ==
  ASSUME InvoiceInv, NEW i \in InvoiceIds, NEW type, NEW n \in CashAmounts, Settles(i, type, n)
  PROVE  /\ InvoiceInv' /\ Issued' = Issued /\ i \in Issued
         /\ invoices'[i].paid = invoices[i].paid + n
         /\ \A b \in InvoiceIds : /\ invoices'[b].kind = invoices[b].kind
                                  /\ invoices'[b].orig = invoices[b].orig
                                  /\ invoices'[b].grand = invoices[b].grand
         /\ \A b \in InvoiceIds \ {i} : invoices'[b] = invoices[b]
<1> DEFINE old == invoices[i]
           new == [old EXCEPT !.paid = @ + n]
<1>1. invoices' = [invoices EXCEPT ![i] = new]
  BY DEF Settles, InvoiceInv
<1>2. old \in InvoiceRow /\ n \in Nat /\ n <= old.grand - old.paid /\ old.kind # "none"
  BY RetailAssumption DEF Settles, CanSettle, InvoiceInv
<1> HIDE DEF old
<1>3. /\ new \in InvoiceRow /\ new.kind = old.kind /\ new.orig = old.orig /\ new.grand = old.grand
      /\ new.paid = old.paid + n /\ new.paid <= new.grand
  BY <1>2 DEF InvoiceRow
<1> HIDE DEF new
<1>4. /\ invoices' \in [InvoiceIds -> InvoiceRow] /\ invoices'[i] = new
      /\ \A b \in InvoiceIds \ {i} : invoices'[b] = invoices[b]
  BY <1>1, <1>3 DEF InvoiceInv
<1>5. \A b \in InvoiceIds : /\ invoices'[b].kind = invoices[b].kind
                            /\ invoices'[b].orig = invoices[b].orig
                            /\ invoices'[b].grand = invoices[b].grand
                            /\ invoices'[b].paid <= invoices'[b].grand
  BY <1>3, <1>4 DEF old, InvoiceInv
<1>6. Issued' = Issued /\ i \in Issued
  BY <1>2, <1>5 DEF Issued, old
<1>7. \A b \in InvoiceIds : invoices'[b].kind = "none" => invoices'[b] = NoInvoice
  BY <1>2, <1>4, <1>5 DEF InvoiceInv, old
<1>8. InvoiceInv'
  BY <1>4, <1>5, <1>6, <1>7 DEF InvoiceInv
<1> QED
  BY <1>3, <1>4, <1>5, <1>6, <1>8 DEF old

LEMMA InvoiceInvHolds == Spec => []InvoiceInv
<1>1. Init => InvoiceInv
  <2> SUFFICES ASSUME Init PROVE InvoiceInv
    OBVIOUS
  <2>1. invoices \in [InvoiceIds -> InvoiceRow] /\ \A i \in InvoiceIds : invoices[i] = NoInvoice
    BY DEF Init, NoInvoice, InvoiceRow
  <2>2. /\ NoInvoice.kind = "none" /\ NoInvoice.paid = 0 /\ NoInvoice.grand = 0
        /\ "none" \notin ReturnKinds
    BY DEF NoInvoice, ReturnKinds
  <2>3. Issued = {}
    BY <2>1, <2>2 DEF Issued
  <2> QED
    BY <2>1, <2>2, <2>3, FS_EmptySet DEF InvoiceInv
<1>2. InvoiceInv /\ [Next]_vars => InvoiceInv'
  <2> SUFFICES ASSUME InvoiceInv, [Next]_vars PROVE InvoiceInv'
    OBVIOUS
  <2>1. ASSUME UNCHANGED invoices PROVE InvoiceInv'
    BY <2>1 DEF InvoiceInv, Issued
  <2> QED
    BY <2>1, EveryInvoiceStep, IssuesKeeps, SettlesKeeps DEF InvoiceStep
<1> QED
  BY <1>1, <1>2, PTL DEF Spec

-----------------------------------------------------------------------------
(* The commands of the shop keep the contract of returns: a step of        *)
(* theirs is a step of ReturnSettlement on the originals, or none.         *)

LEMMA ReturnSums ==
  ASSUME InvoiceInv, NEW o
  PROVE  /\ IsFiniteSet(Returns(o)) /\ Returns(o) \subseteq Issued
         /\ \A r \in Returns(o) : invoices[r].grand \in Nat /\ invoices[r].paid \in Nat
         /\ ReturnedGross(o) \in Nat /\ Refunded(o) \in Nat
<1> DEFINE grands == [r \in Returns(o) |-> invoices[r].grand]
           paids == [r \in Returns(o) |-> invoices[r].paid]
<1>1. Returns(o) \subseteq Issued
  BY DEF Returns, Issued, ReturnKinds
<1>2. IsFiniteSet(Returns(o))
  BY <1>1, FS_Subset DEF InvoiceInv
<1>3. \A r \in InvoiceIds : invoices[r].grand \in Nat /\ invoices[r].paid \in Nat
  BY DEF InvoiceInv, InvoiceRow
<1>4. Returns(o) \subseteq InvoiceIds
  BY DEF Returns
<1>5. /\ DOMAIN grands = Returns(o) /\ \A r \in Returns(o) : grands[r] \in Nat
      /\ DOMAIN paids = Returns(o) /\ \A r \in Returns(o) : paids[r] \in Nat
  BY <1>3, <1>4
<1>6. SumFunction(grands) \in Nat /\ SumFunction(paids) \in Nat
  <2> HIDE DEF grands, paids
  <2> QED
    BY <1>2, <1>5, SumNat
<1> QED
  BY <1>1, <1>2, <1>3, <1>4, <1>6 DEF ReturnedGross, Refunded

\* A return adds its total to what was returned of its original.
LEMMA ReturnIssued ==
  ASSUME InvoiceInv, NEW i \in InvoiceIds, NEW form \in InvoiceForms,
         NEW o \in InvoiceIds \cup {None}, NEW w \in Warehouses, NEW d \in Dates,
         Issues(i, form, o, w, d), NEW q \in InvoiceIds
  PROVE  LET its == form.kind \in ReturnKinds /\ q = o
         IN  /\ ReturnedGross(q)' = ReturnedGross(q) + IF its THEN Grand(form) ELSE 0
             /\ Refunded(q)' = Refunded(q)
<1> DEFINE its == form.kind \in ReturnKinds /\ q = o
           A == Returns(q)
           B == Returns(q)'
           f == [r \in A |-> invoices[r].grand]
           g == [r \in B |-> invoices'[r].grand]
           u == [r \in A |-> invoices[r].paid]
           v == [r \in B |-> invoices'[r].paid]
<1>1. /\ InvoiceInv' /\ i \notin Issued
      /\ invoices'[i].kind = form.kind /\ invoices'[i].orig = o
      /\ invoices'[i].grand = Grand(form) /\ invoices'[i].paid = form.paid
      /\ \A b \in InvoiceIds \ {i} : invoices'[b] = invoices[b]
  BY IssuesKeeps
<1>2. IsFiniteSet(A) /\ A \subseteq Issued /\ \A r \in A : invoices[r].grand \in Nat /\ invoices[r].paid \in Nat
  BY ReturnSums
<1>3. \A r \in B : invoices'[r].grand \in Nat /\ invoices'[r].paid \in Nat
  BY <1>1 DEF InvoiceInv, InvoiceRow, Returns
<1>4. A \subseteq InvoiceIds /\ i \notin A /\ B \ {i} = A /\ (i \in B <=> its)
  BY <1>1, <1>2 DEF Returns
<1>5. its => form.paid = 0
  BY DEF Issues, ReturnAllowed
<1>6. Grand(form) \in Nat /\ form.paid \in Nat
  BY FormGrand
<1>7. /\ DOMAIN f = A /\ DOMAIN g = B /\ DOMAIN u = A /\ DOMAIN v = B
      /\ \A r \in A : f[r] \in Int /\ u[r] \in Int
      /\ \A r \in B : g[r] \in Int /\ v[r] \in Int
      /\ \A r \in A \ {i} : g[r] = f[r] /\ v[r] = u[r]
      /\ i \in B => g[i] = Grand(form) /\ v[i] = form.paid
  BY <1>1, <1>2, <1>3, <1>4
<1>8. /\ ReturnedGross(q) = SumFunction(f) /\ ReturnedGross(q)' = SumFunction(g)
      /\ Refunded(q) = SumFunction(u) /\ Refunded(q)' = SumFunction(v)
  BY DEF ReturnedGross, Refunded
<1>9. ReturnedGross(q) \in Nat /\ Refunded(q) \in Nat
  BY ReturnSums
<1> HIDE DEF f, g, u, v, A, B
<1>10. /\ SumFunction(g) = SumFunction(f) - ValueAt(f, i) + ValueAt(g, i)
       /\ SumFunction(v) = SumFunction(u) - ValueAt(u, i) + ValueAt(v, i)
  BY <1>2, <1>4, <1>7, SumChanges
<1>11. /\ ValueAt(f, i) = 0 /\ ValueAt(u, i) = 0
       /\ ValueAt(g, i) = (IF its THEN Grand(form) ELSE 0) /\ ValueAt(v, i) = 0
  BY <1>4, <1>5, <1>7 DEF ValueAt
<1> QED
  BY <1>6, <1>8, <1>9, <1>10, <1>11

\* Money handed back on a return counts against its original.
LEMMA ReturnSettled ==
  ASSUME InvoiceInv, NEW i \in InvoiceIds, NEW type, NEW n \in CashAmounts, Settles(i, type, n),
         NEW q \in InvoiceIds
  PROVE  LET its == invoices[i].kind \in ReturnKinds /\ q = invoices[i].orig
         IN  /\ ReturnedGross(q)' = ReturnedGross(q)
             /\ Refunded(q)' = Refunded(q) + IF its THEN n ELSE 0
<1> DEFINE its == invoices[i].kind \in ReturnKinds /\ q = invoices[i].orig
           A == Returns(q)
           f == [r \in A |-> invoices[r].grand]
           g == [r \in A |-> invoices'[r].grand]
           u == [r \in A |-> invoices[r].paid]
           v == [r \in A |-> invoices'[r].paid]
<1>1. /\ InvoiceInv'
      /\ invoices'[i].paid = invoices[i].paid + n
      /\ \A b \in InvoiceIds : /\ invoices'[b].kind = invoices[b].kind
                               /\ invoices'[b].orig = invoices[b].orig
                               /\ invoices'[b].grand = invoices[b].grand
      /\ \A b \in InvoiceIds \ {i} : invoices'[b] = invoices[b]
  BY SettlesKeeps
<1>2. IsFiniteSet(A) /\ \A r \in A : invoices[r].grand \in Nat /\ invoices[r].paid \in Nat
  BY ReturnSums
<1>3. A \subseteq InvoiceIds /\ (i \in A <=> its)
  BY DEF Returns
<1>4. Returns(q)' = A
  BY <1>1 DEF Returns
<1>5. n \in Nat /\ invoices[i].paid \in Nat
  BY RetailAssumption DEF InvoiceInv, InvoiceRow
<1>6. g = f
  BY <1>1, <1>3
<1>7. /\ DOMAIN u = A /\ DOMAIN v = A
      /\ \A r \in A : u[r] \in Int /\ v[r] \in Int
      /\ \A r \in A \ {i} : v[r] = u[r]
      /\ i \in A => u[i] = invoices[i].paid /\ v[i] = invoices[i].paid + n
  BY <1>1, <1>2, <1>3, <1>5
<1>8. /\ ReturnedGross(q) = SumFunction(f) /\ ReturnedGross(q)' = SumFunction(g)
      /\ Refunded(q) = SumFunction(u) /\ Refunded(q)' = SumFunction(v)
  BY <1>4 DEF ReturnedGross, Refunded
<1>9. ReturnedGross(q) \in Nat /\ Refunded(q) \in Nat
  BY ReturnSums
<1> HIDE DEF f, g, u, v, A
<1>10. SumFunction(v) = SumFunction(u) - ValueAt(u, i) + ValueAt(v, i)
  BY <1>2, <1>7, SumChanges
<1>11. ValueAt(v, i) - ValueAt(u, i) = (IF its THEN n ELSE 0) /\ ValueAt(u, i) \in Int /\ ValueAt(v, i) \in Int
  BY <1>3, <1>5, <1>7 DEF ValueAt
<1> QED
  BY <1>5, <1>6, <1>8, <1>9, <1>10, <1>11

-----------------------------------------------------------------------------
GrossOf == OriginalOnly([i \in InvoiceIds |-> invoices[i].grand])
PaidOf == OriginalOnly([i \in InvoiceIds |-> invoices[i].paid])
ReturnedOf == OriginalOnly([i \in InvoiceIds |-> ReturnedGross(i)])
RefundedOf == OriginalOnly([i \in InvoiceIds |-> Refunded(i)])

LEMMA Mapped ==
  ASSUME NEW i \in InvoiceIds
  PROVE  /\ LET original == invoices[i].kind \in OriginalKinds
            IN  /\ GrossOf[i] = (IF original THEN invoices[i].grand ELSE 0)
                /\ PaidOf[i] = (IF original THEN invoices[i].paid ELSE 0)
                /\ ReturnedOf[i] = (IF original THEN ReturnedGross(i) ELSE 0)
                /\ RefundedOf[i] = (IF original THEN Refunded(i) ELSE 0)
         /\ LET original == invoices'[i].kind \in OriginalKinds
            IN  /\ GrossOf'[i] = (IF original THEN invoices'[i].grand ELSE 0)
                /\ PaidOf'[i] = (IF original THEN invoices'[i].paid ELSE 0)
                /\ ReturnedOf'[i] = (IF original THEN ReturnedGross(i)' ELSE 0)
                /\ RefundedOf'[i] = (IF original THEN Refunded(i)' ELSE 0)
  BY DEF GrossOf, PaidOf, ReturnedOf, RefundedOf, OriginalOnly

LEMMA MappedFunctions ==
  /\ GrossOf = [i \in InvoiceIds |-> GrossOf[i]] /\ PaidOf = [i \in InvoiceIds |-> PaidOf[i]]
  /\ ReturnedOf = [i \in InvoiceIds |-> ReturnedOf[i]]
  /\ RefundedOf = [i \in InvoiceIds |-> RefundedOf[i]]
  /\ GrossOf' = [i \in InvoiceIds |-> GrossOf'[i]] /\ PaidOf' = [i \in InvoiceIds |-> PaidOf'[i]]
  /\ ReturnedOf' = [i \in InvoiceIds |-> ReturnedOf'[i]]
  /\ RefundedOf' = [i \in InvoiceIds |-> RefundedOf'[i]]
  BY DEF GrossOf, PaidOf, ReturnedOf, RefundedOf, OriginalOnly

LEMMA IssuesImplements ==
  ASSUME InvoiceInv, NEW i \in InvoiceIds, NEW form \in InvoiceForms,
         NEW o \in InvoiceIds \cup {None}, NEW w \in Warehouses, NEW d \in Dates,
         Issues(i, form, o, w, d)
  PROVE  Settlement!SettlementNext
<1>1. /\ InvoiceInv' /\ i \notin Issued
      /\ invoices'[i].kind = form.kind /\ invoices'[i].orig = o
      /\ invoices'[i].grand = Grand(form) /\ invoices'[i].paid = form.paid
      /\ \A b \in InvoiceIds \ {i} : invoices'[b] = invoices[b]
  BY IssuesKeeps
<1>2. /\ invoices[i].kind = "none" /\ "none" \notin OriginalKinds
      /\ OriginalKinds \cap ReturnKinds = {}
  BY DEF Issues, OriginalKinds, ReturnKinds
<1>3. /\ form.kind \in OriginalKinds \cup ReturnKinds /\ Grand(form) \in Nat /\ form.paid \in Nat
      /\ form.paid <= Grand(form)
  BY FormGrand
<1>4. \A q \in InvoiceIds :
        /\ ReturnedGross(q)' = ReturnedGross(q)
                                 + IF form.kind \in ReturnKinds /\ q = o THEN Grand(form) ELSE 0
        /\ Refunded(q)' = Refunded(q)
        /\ ReturnedGross(q) \in Nat /\ Refunded(q) \in Nat
  BY ReturnIssued, ReturnSums
<1> DEFINE amounts == {Grand(x) : x \in InvoiceForms} \cup {x.paid : x \in InvoiceForms}
                        \cup CashAmounts
<1>5. Grand(form) \in amounts /\ form.paid \in amounts
  OBVIOUS
<1>6. CASE form.kind \in OriginalKinds
  <2>1. Returns(i) = {}
    BY <1>2 DEF InvoiceInv, Returns
  <2>2. ReturnedGross(i) = 0 /\ Refunded(i) = 0
    BY <2>1, SumNothing DEF ReturnedGross, Refunded
  <2>3. ASSUME NEW q \in InvoiceIds
        PROVE  /\ GrossOf'[q] = (IF q = i THEN Grand(form) ELSE GrossOf[q])
               /\ PaidOf'[q] = (IF q = i THEN form.paid ELSE PaidOf[q])
               /\ ReturnedOf'[q] = ReturnedOf[q] /\ RefundedOf'[q] = RefundedOf[q]
    BY <1>1, <1>2, <1>4, <1>6, <2>2, Mapped
  <2>4. GrossOf[i] = 0
    BY <1>2, Mapped
  <2>5. /\ GrossOf' = [GrossOf EXCEPT ![i] = Grand(form)]
        /\ PaidOf' = [PaidOf EXCEPT ![i] = form.paid]
        /\ ReturnedOf' = ReturnedOf /\ RefundedOf' = RefundedOf
    BY <2>3, MappedFunctions
  <2>6. Settlement!Issue(i, Grand(form), form.paid)
    BY <1>3, <2>4, <2>5 DEF Settlement!Issue, GrossOf, PaidOf, ReturnedOf, RefundedOf
  <2> QED
    BY <1>5, <2>6 DEF Settlement!SettlementNext
<1>7. CASE form.kind \in ReturnKinds
  <2>1. /\ o \in InvoiceIds /\ invoices[o].kind \in OriginalKinds /\ o # i
        /\ ReturnedGross(o) + Grand(form) <= invoices[o].grand
    BY <1>2, <1>7 DEF Issues, ReturnAllowed, ValidOriginals, OriginalKinds
  <2>2. ASSUME NEW q \in InvoiceIds
        PROVE  /\ ReturnedOf'[q] = (IF q = o THEN ReturnedOf[o] + Grand(form) ELSE ReturnedOf[q])
               /\ GrossOf'[q] = GrossOf[q] /\ PaidOf'[q] = PaidOf[q]
               /\ RefundedOf'[q] = RefundedOf[q]
    <3>1. CASE q = i
      BY <1>1, <1>2, <1>7, <2>1, <3>1, Mapped
    <3>2. CASE q # i
      <4>1. invoices'[q] = invoices[q]
        BY <1>1, <3>2
      <4> QED
        BY <4>1, <1>3, <1>4, <1>7, <2>1, Mapped
    <3> QED
      BY <3>1, <3>2
  <2>3. /\ ReturnedOf' = [ReturnedOf EXCEPT ![o] = @ + Grand(form)]
        /\ GrossOf' = GrossOf /\ PaidOf' = PaidOf /\ RefundedOf' = RefundedOf
    BY <2>1, <2>2, MappedFunctions
  <2>4. /\ GrossOf[o] = invoices[o].grand /\ ReturnedOf[o] = ReturnedGross(o)
        /\ invoices[o].grand \in Nat
    BY <2>1, Mapped DEF InvoiceInv, InvoiceRow
  <2>5. Grand(form) <= GrossOf[o] - ReturnedOf[o]
    BY <1>3, <1>4, <2>1, <2>4
  <2>6. Settlement!Return(o, Grand(form))
    BY <2>3, <2>5
       DEF Settlement!Return, Settlement!NetOf, GrossOf, PaidOf, ReturnedOf, RefundedOf
  <2> QED
    BY <1>5, <2>1, <2>6 DEF Settlement!SettlementNext
<1> QED
  BY <1>3, <1>6, <1>7

LEMMA SettlesImplements ==
  ASSUME InvoiceInv, NEW i \in InvoiceIds, NEW type, NEW n \in CashAmounts, Settles(i, type, n)
  PROVE  Settlement!SettlementNext
<1>1. /\ invoices'[i].paid = invoices[i].paid + n
      /\ \A b \in InvoiceIds : /\ invoices'[b].kind = invoices[b].kind
                               /\ invoices'[b].orig = invoices[b].orig
                               /\ invoices'[b].grand = invoices[b].grand
      /\ \A b \in InvoiceIds \ {i} : invoices'[b] = invoices[b]
      /\ i \in Issued
  BY SettlesKeeps
<1>2. n \in Nat /\ n <= Available(i) /\ invoices[i].kind \in OriginalKinds \cup ReturnKinds
  BY <1>1, RetailAssumption DEF Settles, CanSettle, InvoiceInv, InvoiceRow, Issued
<1>3. \A q \in InvoiceIds :
        /\ ReturnedGross(q)' = ReturnedGross(q)
        /\ Refunded(q)' = Refunded(q)
                            + IF invoices[i].kind \in ReturnKinds /\ q = invoices[i].orig THEN n ELSE 0
        /\ ReturnedGross(q) \in Nat /\ Refunded(q) \in Nat
        /\ invoices[q].paid \in Nat /\ invoices[q].grand \in Nat
  BY ReturnSettled, ReturnSums DEF InvoiceInv, InvoiceRow
<1>4. OriginalKinds \cap ReturnKinds = {}
  BY DEF OriginalKinds, ReturnKinds
<1> DEFINE amounts == {Grand(x) : x \in InvoiceForms} \cup {x.paid : x \in InvoiceForms}
                        \cup CashAmounts
<1>5. CASE invoices[i].kind \in OriginalKinds
  <2>1. ASSUME NEW q \in InvoiceIds
        PROVE  /\ PaidOf'[q] = (IF q = i THEN PaidOf[i] + n ELSE PaidOf[q])
               /\ GrossOf'[q] = GrossOf[q] /\ ReturnedOf'[q] = ReturnedOf[q]
               /\ RefundedOf'[q] = RefundedOf[q]
    <3>1. /\ ReturnedGross(q)' = ReturnedGross(q) /\ Refunded(q)' = Refunded(q)
          /\ invoices'[q].kind = invoices[q].kind /\ invoices'[q].grand = invoices[q].grand
          /\ invoices'[q].paid = IF q = i THEN invoices[i].paid + n ELSE invoices[q].paid
      BY <1>1, <1>3, <1>4, <1>5
    <3> QED
      BY <1>5, <3>1, Mapped
  <2>2. /\ PaidOf' = [PaidOf EXCEPT ![i] = @ + n]
        /\ GrossOf' = GrossOf /\ ReturnedOf' = ReturnedOf /\ RefundedOf' = RefundedOf
    BY <2>1, MappedFunctions
  <2>3. Available(i) = invoices[i].grand - ReturnedGross(i) - invoices[i].paid
    BY <1>4, <1>5 DEF Available, Reference, NetTotal
  <2>4. n <= GrossOf[i] - ReturnedOf[i] - PaidOf[i]
    BY <1>2, <1>5, <2>3, Mapped
  <2>5. GrossOf[i] \in Int /\ ReturnedOf[i] \in Int /\ PaidOf[i] \in Int
    BY <1>3, <1>5, Mapped
  <2>6. n <= Settlement!Owed(i)
    <3>1. Settlement!Owed(i) = IF GrossOf[i] - ReturnedOf[i] - PaidOf[i] > 0
                               THEN GrossOf[i] - ReturnedOf[i] - PaidOf[i] ELSE 0
      BY DEF Settlement!Owed, Settlement!NetOf, Settlement!Max0, GrossOf, PaidOf, ReturnedOf
    <3> QED
      BY <1>2, <2>4, <2>5, <3>1
  <2>7. Settlement!Collect(i, n)
    BY <2>2, <2>6 DEF Settlement!Collect, GrossOf, PaidOf, ReturnedOf, RefundedOf
  <2> QED
    BY <2>7 DEF Settlement!SettlementNext
<1>6. CASE invoices[i].kind \in ReturnKinds
  <2> DEFINE o == invoices[i].orig
  <2>1. o \in InvoiceIds /\ invoices[o].kind \in OriginalKinds /\ o # i
    BY <1>4, <1>6 DEF InvoiceInv
  <2>2. Available(i) = (IF invoices[o].paid > invoices[o].grand - ReturnedGross(o)
                        THEN invoices[o].paid - (invoices[o].grand - ReturnedGross(o)) ELSE 0)
                       - Refunded(o)
    BY <1>6, <2>1 DEF Available, Reference, NetTotal
  <2> HIDE DEF o
  <2>3. ASSUME NEW q \in InvoiceIds
        PROVE  /\ RefundedOf'[q] = (IF q = o THEN RefundedOf[o] + n ELSE RefundedOf[q])
               /\ GrossOf'[q] = GrossOf[q] /\ ReturnedOf'[q] = ReturnedOf[q]
               /\ PaidOf'[q] = PaidOf[q]
    <3>1. /\ ReturnedGross(q)' = ReturnedGross(q)
          /\ Refunded(q)' = IF q = o THEN Refunded(q) + n ELSE Refunded(q)
          /\ invoices'[q].kind = invoices[q].kind /\ invoices'[q].grand = invoices[q].grand
          /\ invoices[q].kind \in OriginalKinds => invoices'[q].paid = invoices[q].paid
      BY <1>1, <1>3, <1>4, <1>6 DEF o
    <3> QED
      BY <2>1, <3>1, Mapped
  <2>4. /\ RefundedOf' = [RefundedOf EXCEPT ![o] = @ + n]
        /\ GrossOf' = GrossOf /\ ReturnedOf' = ReturnedOf /\ PaidOf' = PaidOf
    BY <2>1, <2>3, MappedFunctions
  <2>5. /\ GrossOf[o] = invoices[o].grand /\ ReturnedOf[o] = ReturnedGross(o)
        /\ PaidOf[o] = invoices[o].paid /\ RefundedOf[o] = Refunded(o)
    BY <2>1, Mapped
  <2>6. n <= Settlement!Credit(o) - RefundedOf[o]
    <3>1. Settlement!Credit(o) = IF PaidOf[o] - (GrossOf[o] - ReturnedOf[o]) > 0
                                 THEN PaidOf[o] - (GrossOf[o] - ReturnedOf[o]) ELSE 0
      BY DEF Settlement!Credit, Settlement!NetOf, Settlement!Max0, GrossOf, PaidOf, ReturnedOf
    <3> QED
      BY <1>2, <1>3, <2>1, <2>2, <2>5, <3>1
  <2>7. Settlement!Refund(o, n)
    BY <2>4, <2>6 DEF Settlement!Refund, GrossOf, PaidOf, ReturnedOf, RefundedOf
  <2> QED
    BY <2>1, <2>7 DEF Settlement!SettlementNext
<1> QED
  BY <1>2, <1>5, <1>6

(* SettlesReturns: through every order of invoices, receipts, returns and  *)
(* refunds, the commands of the shop collect money up to what is owed      *)
(* after the returns and hand it back up to what was paid beyond that, as  *)
(* the contract of ReturnSettlement says.                                  *)
THEOREM SettlesReturnsCorrect == Spec => SettlesReturns
<1>1. Init => Settlement!SettlementInit
  <2> SUFFICES ASSUME Init PROVE Settlement!SettlementInit
    OBVIOUS
  <2>1. \A i \in InvoiceIds : invoices[i].kind \notin OriginalKinds
    BY DEF Init, NoInvoice, OriginalKinds
  <2> QED
    BY <2>1 DEF Settlement!SettlementInit, OriginalOnly
<1>2. InvoiceInv /\ [Next]_vars => [Settlement!SettlementNext]_(Settlement!settlementVars)
  <2> SUFFICES ASSUME InvoiceInv, [Next]_vars
               PROVE  [Settlement!SettlementNext]_(Settlement!settlementVars)
    OBVIOUS
  <2>1. CASE UNCHANGED invoices
    BY <2>1 DEF Settlement!settlementVars, OriginalOnly, ReturnedGross, Refunded, Returns
  <2> QED
    BY <2>1, EveryInvoiceStep, IssuesImplements, SettlesImplements DEF InvoiceStep
<1> QED
  BY <1>1, <1>2, InvoiceInvHolds, PTL DEF Spec, SettlesReturns, Settlement!SettlementSpec

-----------------------------------------------------------------------------
(* The ledger, the documents and the treasury list name the same money:    *)
(* what each of them comes to, and what a command adds to it.              *)

\* The accounts whose balance documents and treasury explain.
MoneyAccounts == {"receivable", "payable", "chequeIn", "chequeOut"} \cup CashAccounts

\* The journal of a treasury row bears its number.
JournalInv ==
  /\ IsFiniteSet(journals)
  /\ \A j \in journals :
       /\ \A a \in MoneyAccounts : j.entry[a] \in Int
       /\ j.source[1] = "treasury" => j.source[2] \in 1 .. Len(treasury)

-----------------------------------------------------------------------------
(* What a journal says of an account.                                      *)

LEMMA EntryOfOne ==
  ASSUME NEW lines, NEW a \in Accounts, NEW k,
         {m \in DOMAIN lines : lines[m].account = a} = {k}, lines[k].amount \in Int
  PROVE  Entry(lines)[a] = lines[k].amount
<1> DEFINE f == [m \in {k} |-> lines[m].amount]
<1>1. Entry(lines)[a] = SumFunction(f)
  BY DEF Entry
<1>2. DOMAIN f = {k} /\ f[k] \in Int /\ f[k] = lines[k].amount
  OBVIOUS
<1> HIDE DEF f
<1> QED
  BY <1>1, <1>2, SumOne

LEMMA EntryOfNone ==
  ASSUME NEW lines, NEW a \in Accounts, \A m \in DOMAIN lines : lines[m].account # a
  PROVE  Entry(lines)[a] = 0
<1> DEFINE f == [m \in {} |-> lines[m].amount]
<1>1. {m \in DOMAIN lines : lines[m].account = a} = {}
  OBVIOUS
<1>2. Entry(lines)[a] = SumFunction([m \in {m \in DOMAIN lines : lines[m].account = a} |-> lines[m].amount])
  BY DEF Entry
<1>3. Entry(lines)[a] = SumFunction(f)
  BY <1>1, <1>2
<1> QED
  BY <1>3, SumNothing

\* A journal of two lines on two accounts.
TwoSided(lines, x, n, y, m) ==
  /\ DOMAIN lines = {1, 2} /\ x # y /\ n \in Int /\ m \in Int
  /\ lines[1].account = x /\ lines[1].amount = n
  /\ lines[2].account = y /\ lines[2].amount = m

LEMMA TwoLines ==
  ASSUME NEW lines, NEW x, NEW y, NEW n, NEW m, TwoSided(lines, x, n, y, m), NEW a \in Accounts
  PROVE  Entry(lines)[a] = IF a = x THEN n ELSE IF a = y THEN m ELSE 0
<1>2. CASE a = x
  <2>1. {k \in DOMAIN lines : lines[k].account = a} = {1}
    BY <1>2 DEF TwoSided
  <2>2. Entry(lines)[a] = n
    BY <2>1, EntryOfOne DEF TwoSided
  <2> QED
    BY <1>2, <2>2
<1>3. CASE a = y /\ a # x
  <2>1. {k \in DOMAIN lines : lines[k].account = a} = {2}
    BY <1>3 DEF TwoSided
  <2>2. Entry(lines)[a] = m
    BY <2>1, EntryOfOne DEF TwoSided
  <2> QED
    BY <1>3, <2>2
<1>4. CASE a # x /\ a # y
  <2>1. Entry(lines)[a] = 0
    BY <1>4, EntryOfNone DEF TwoSided
  <2> QED
    BY <1>4, <2>1
<1> QED
  BY <1>2, <1>3, <1>4

LEMMA AccountsApart ==
  /\ MoneyAccounts \subseteq Accounts
  /\ \A a \in CashAccounts : a \in Accounts /\ a \notin ControlAccounts /\ a # None
  BY RetailAssumption DEF MoneyAccounts, Accounts, ControlAccounts

\* The journal of an invoice: its total on the control account, and nothing on
\* the others that money moves.
LEMMA InvoiceEntry ==
  ASSUME NEW form \in InvoiceForms, NEW net, NEW cost, NEW a \in MoneyAccounts
  PROVE  Entry(InvoiceLines(form, net, cost))[a] =
           IF a = ControlAccount(form.kind)
           THEN IF form.kind \in {"sale", "non_formal", "purchase_return"}
                THEN Grand(form) ELSE -Grand(form)
           ELSE 0
<1> DEFINE lines == InvoiceLines(form, net, cost)
           grand == Grand(form)
           signed == IF form.kind \in {"sale", "non_formal", "purchase_return"}
                     THEN grand ELSE -grand
           control == ControlAccount(form.kind)
<1>1. form.kind \in OriginalKinds \cup ReturnKinds /\ grand \in Int
  BY FormGrand
<1>2. signed \in Int
  BY <1>1
<1>3. \E k \in DOMAIN lines :
        /\ lines[k].account = control /\ lines[k].amount = signed
        /\ \A m \in DOMAIN lines : m # k => lines[m].account \in ControlAccounts \ {"receivable", "payable", "chequeIn", "chequeOut"}
  <2>1. CASE form.kind \in {"sale", "non_formal"}
    <3>1. /\ DOMAIN lines = 1 .. 5
          /\ lines[1].account = "receivable" /\ lines[1].amount = grand
          /\ lines[2].account = "revenue" /\ lines[3].account = "outputVat"
          /\ lines[4].account = "cogs" /\ lines[5].account = "inventory"
      BY <2>1 DEF InvoiceLines, Line
    <3> HIDE DEF lines
    <3>2. \A m \in 2 .. 5 : lines[m].account \in {"revenue", "outputVat", "cogs", "inventory"}
      BY <3>1
    <3> QED
      BY <2>1, <3>1, <3>2 DEF ControlAccount, ControlAccounts
  <2>2. CASE form.kind = "purchase"
    <3>1. /\ DOMAIN lines = 1 .. 4
          /\ lines[4].account = "payable" /\ lines[4].amount = -grand
          /\ lines[1].account = "inventory" /\ lines[2].account = "expense"
          /\ lines[3].account = "inputVat"
      BY <2>2 DEF InvoiceLines, Line
    <3> HIDE DEF lines
    <3>2. \A m \in 1 .. 3 : lines[m].account \in {"inventory", "expense", "inputVat"}
      BY <3>1
    <3> QED
      BY <2>2, <3>1, <3>2 DEF ControlAccount, ControlAccounts
  <2>3. CASE form.kind = "sale_return"
    <3>1. /\ DOMAIN lines = 1 .. 5
          /\ lines[3].account = "receivable" /\ lines[3].amount = -grand
          /\ lines[1].account = "revenue" /\ lines[2].account = "outputVat"
          /\ lines[4].account = "inventory" /\ lines[5].account = "cogs"
      BY <2>3 DEF InvoiceLines, Line
    <3> HIDE DEF lines
    <3>2. \A m \in (1 .. 5) \ {3} : lines[m].account \in {"revenue", "outputVat", "cogs", "inventory"}
      BY <3>1
    <3> QED
      BY <2>3, <3>1, <3>2 DEF ControlAccount, ControlAccounts
  <2>4. CASE form.kind = "purchase_return"
    <3>1. /\ DOMAIN lines = 1 .. 5
          /\ lines[1].account = "payable" /\ lines[1].amount = grand
          /\ lines[2].account = "inventory" /\ lines[3].account = "expense"
          /\ lines[4].account = "inputVat" /\ lines[5].account = "variance"
      BY <2>4 DEF InvoiceLines, Line
    <3> HIDE DEF lines
    <3>2. \A m \in 2 .. 5 : lines[m].account \in {"inventory", "expense", "inputVat", "variance"}
      BY <3>1
    <3> QED
      BY <2>4, <3>1, <3>2 DEF ControlAccount, ControlAccounts
  <2> QED
    BY <1>1, <2>1, <2>2, <2>3, <2>4 DEF OriginalKinds, ReturnKinds
<1>4. control \in {"receivable", "payable"} /\ a \in Accounts
  BY AccountsApart DEF ControlAccount
<1> HIDE DEF lines, signed, control
<1>5. PICK k \in DOMAIN lines :
        /\ lines[k].account = control /\ lines[k].amount = signed
        /\ \A m \in DOMAIN lines : m # k => lines[m].account \in ControlAccounts \ {"receivable", "payable", "chequeIn", "chequeOut"}
  BY <1>3
<1>6. \A m \in DOMAIN lines : m # k => lines[m].account # a /\ lines[m].account # control
  BY <1>4, <1>5, AccountsApart DEF MoneyAccounts
<1>7. CASE a = control
  <2>1. {m \in DOMAIN lines : lines[m].account = a} = {k}
    BY <1>5, <1>6, <1>7
  <2>2. Entry(lines)[a] = signed
    BY <1>2, <1>4, <1>5, <2>1, EntryOfOne
  <2> QED
    BY <1>7, <2>2 DEF lines, signed, control
<1>8. CASE a # control
  <2>1. \A m \in DOMAIN lines : lines[m].account # a
    BY <1>5, <1>6, <1>8
  <2>2. Entry(lines)[a] = 0
    BY <1>4, <2>1, EntryOfNone
  <2> QED
    BY <1>8, <2>2 DEF lines, control
<1> QED
  BY <1>7, <1>8

\* The balance that a set of journals makes.
BalanceOver(S, a) == SumFunction([j \in S |-> j.entry[a]])

LEMMA EntryAdded ==
  ASSUME NEW S, IsFiniteSet(S), NEW j, j \notin S, NEW a,
         \A k \in S \cup {j} : k.entry[a] \in Int
  PROVE  /\ BalanceOver(S, a) \in Int
         /\ BalanceOver(S \cup {j}, a) = BalanceOver(S, a) + j.entry[a]
<1> DEFINE f == [k \in S |-> k.entry[a]]
           g == [k \in S \cup {j} |-> k.entry[a]]
<1>1. /\ DOMAIN f = S /\ DOMAIN g = S \cup {j}
      /\ \A k \in S : f[k] \in Int /\ g[k] = f[k]
      /\ g[j] = j.entry[a] /\ g[j] \in Int
  OBVIOUS
<1>2. BalanceOver(S, a) = SumFunction(f) /\ BalanceOver(S \cup {j}, a) = SumFunction(g)
  BY DEF BalanceOver
<1> HIDE DEF f, g
<1>3. SumFunction(f) \in Int
  BY <1>1, SumInt
<1>4. SumFunction(g) = SumFunction(f) - ValueAt(f, j) + ValueAt(g, j)
  BY <1>1, SumChanges
<1>5. ValueAt(f, j) = 0 /\ ValueAt(g, j) = j.entry[a]
  BY <1>1 DEF ValueAt
<1> QED
  BY <1>1, <1>2, <1>3, <1>4, <1>5

\* A journal that was not there adds its entry to every balance.
LEMMA JournalAdded ==
  ASSUME JournalInv, NEW j, j \notin journals, journals' = journals \cup {j},
         \A a \in MoneyAccounts : j.entry[a] \in Int
  PROVE  /\ IsFiniteSet(journals')
         /\ \A a \in MoneyAccounts : /\ Balance(a) \in Int
                                     /\ Balance(a)' = Balance(a) + j.entry[a]
<1>1. IsFiniteSet(journals) /\ IsFiniteSet(journals')
  BY FS_AddElement DEF JournalInv
<1>2. ASSUME NEW a \in MoneyAccounts
      PROVE  Balance(a) \in Int /\ Balance(a)' = Balance(a) + j.entry[a]
  <2>1. \A x \in journals \cup {j} : x.entry[a] \in Int
    BY DEF JournalInv
  <2>2. /\ BalanceOver(journals, a) \in Int
        /\ BalanceOver(journals \cup {j}, a) = BalanceOver(journals, a) + j.entry[a]
    BY <1>1, <2>1, EntryAdded
  <2>3. Balance(a) = BalanceOver(journals, a) /\ Balance(a)' = BalanceOver(journals \cup {j}, a)
    BY DEF Balance, BalanceOver
  <2> QED
    BY <2>2, <2>3
<1> QED
  BY <1>1, <1>2

-----------------------------------------------------------------------------
(* What the treasury list says.                                            *)

PaidOn(i) == SumTreasury(LAMBDA t : t.ref = <<"invoice", i>>)
OnAccount(type) == SumTreasury(LAMBDA t : t.type = type /\ t.ref = None)
Into(a) == SumTreasury(LAMBDA t : t.to = a)
OutOf(a) == SumTreasury(LAMBDA t : t.from = a)

\* The amounts of some treasury rows, before a step and after it.
AmountsOf(K) == [k \in K |-> treasury[k].amount]
AmountsAfter(K) == [k \in K |-> treasury'[k].amount]

LEMMA RowAdded ==
  ASSUME treasury \in Seq(TreasuryRow), NEW row \in TreasuryRow, treasury' = Append(treasury, row)
  PROVE  /\ \A i : /\ PaidOn(i) \in Nat
                   /\ PaidOn(i)' = PaidOn(i) + IF row.ref = <<"invoice", i>> THEN row.amount ELSE 0
         /\ \A type : /\ OnAccount(type) \in Nat
                      /\ OnAccount(type)' = OnAccount(type)
                           + IF row.type = type /\ row.ref = None THEN row.amount ELSE 0
         /\ \A a : /\ Into(a) \in Nat /\ OutOf(a) \in Nat
                   /\ Into(a)' = Into(a) + IF row.to = a THEN row.amount ELSE 0
                   /\ OutOf(a)' = OutOf(a) + IF row.from = a THEN row.amount ELSE 0
<1> DEFINE new == Len(treasury) + 1
<1>1. /\ DOMAIN treasury' = DOMAIN treasury \cup {new} /\ treasury'[new] = row
      /\ \A k \in DOMAIN treasury : treasury'[k] = treasury[k]
      /\ new \notin DOMAIN treasury
  BY RowAppended
<1>2. IsFiniteSet(DOMAIN treasury)
  <2>1. DOMAIN treasury = 1 .. Len(treasury) /\ Len(treasury) \in Nat
    OBVIOUS
  <2> QED
    BY <2>1, FS_Interval
<1>3. row.amount \in Nat /\ \A k \in DOMAIN treasury : treasury[k].amount \in Nat
  <2>1. \A x \in TreasuryRow : x.amount \in Nat
    BY DEF TreasuryRow
  <2> QED
    BY <2>1
<1> HIDE DEF new
<1>4. ASSUME NEW K \in SUBSET DOMAIN treasury
      PROVE  /\ SumFunction(AmountsOf(K)) \in Nat
             /\ SumFunction(AmountsAfter(K)) = SumFunction(AmountsOf(K))
             /\ SumFunction(AmountsAfter(K \cup {new})) = SumFunction(AmountsOf(K)) + row.amount
  <2> DEFINE f == AmountsOf(K)
             g == AmountsAfter(K \cup {new})
  <2>1. AmountsAfter(K) = f
    BY <1>1 DEF AmountsOf, AmountsAfter
  <2>2. /\ DOMAIN f = K /\ DOMAIN g = K \cup {new} /\ new \notin K
        /\ \A k \in K : f[k] \in Nat /\ g[k] = f[k]
        /\ g[new] = row.amount
    BY <1>1, <1>3 DEF AmountsOf, AmountsAfter
  <2>3. IsFiniteSet(K)
    BY <1>2, FS_Subset
  <2> HIDE DEF f, g
  <2>4. SumFunction(f) \in Nat
    BY <2>2, <2>3, SumNat
  <2>5. SumFunction(g) = SumFunction(f) - ValueAt(f, new) + ValueAt(g, new)
    BY <1>3, <2>2, <2>3, SumChanges
  <2>6. ValueAt(f, new) = 0 /\ ValueAt(g, new) = row.amount
    BY <2>2 DEF ValueAt
  <2>7. SumFunction(g) = SumFunction(f) + row.amount
    BY <1>3, <2>4, <2>5, <2>6
  <2> QED
    BY <2>1, <2>4, <2>7 DEF f, g
<1>5. ASSUME NEW i
      PROVE  /\ PaidOn(i) \in Nat
             /\ PaidOn(i)' = PaidOn(i) + IF row.ref = <<"invoice", i>> THEN row.amount ELSE 0
  <2> DEFINE its == row.ref = <<"invoice", i>>
             K == {k \in DOMAIN treasury : treasury[k].ref = <<"invoice", i>>}
             L == {k \in DOMAIN treasury' : treasury'[k].ref = <<"invoice", i>>}
  <2>1. L = (IF its THEN K \cup {new} ELSE K) /\ K \in SUBSET DOMAIN treasury
    BY <1>1
  <2>2. PaidOn(i) = SumFunction(AmountsOf(K)) /\ PaidOn(i)' = SumFunction(AmountsAfter(L))
    BY DEF PaidOn, SumTreasury, AmountsOf, AmountsAfter
  <2> HIDE DEF its, K, L
  <2>3. /\ SumFunction(AmountsOf(K)) \in Nat
        /\ SumFunction(AmountsAfter(K)) = SumFunction(AmountsOf(K))
        /\ SumFunction(AmountsAfter(K \cup {new})) = SumFunction(AmountsOf(K)) + row.amount
    BY <1>4, <2>1
  <2>4. CASE its
    BY <1>3, <2>1, <2>2, <2>3, <2>4 DEF its
  <2>5. CASE ~its
    BY <1>3, <2>1, <2>2, <2>3, <2>5 DEF its
  <2> QED
    BY <2>4, <2>5
<1>6. ASSUME NEW type
      PROVE  /\ OnAccount(type) \in Nat
             /\ OnAccount(type)' = OnAccount(type) + IF row.type = type /\ row.ref = None THEN row.amount ELSE 0
  <2> DEFINE its == row.type = type /\ row.ref = None
             K == {k \in DOMAIN treasury : treasury[k].type = type /\ treasury[k].ref = None}
             L == {k \in DOMAIN treasury' : treasury'[k].type = type /\ treasury'[k].ref = None}
  <2>1. L = (IF its THEN K \cup {new} ELSE K) /\ K \in SUBSET DOMAIN treasury
    BY <1>1
  <2>2. OnAccount(type) = SumFunction(AmountsOf(K)) /\ OnAccount(type)' = SumFunction(AmountsAfter(L))
    BY DEF OnAccount, SumTreasury, AmountsOf, AmountsAfter
  <2> HIDE DEF its, K, L
  <2>3. /\ SumFunction(AmountsOf(K)) \in Nat
        /\ SumFunction(AmountsAfter(K)) = SumFunction(AmountsOf(K))
        /\ SumFunction(AmountsAfter(K \cup {new})) = SumFunction(AmountsOf(K)) + row.amount
    BY <1>4, <2>1
  <2>4. CASE its
    BY <1>3, <2>1, <2>2, <2>3, <2>4 DEF its
  <2>5. CASE ~its
    BY <1>3, <2>1, <2>2, <2>3, <2>5 DEF its
  <2> QED
    BY <2>4, <2>5
<1>7. ASSUME NEW a
      PROVE  /\ Into(a) \in Nat
             /\ Into(a)' = Into(a) + IF row.to = a THEN row.amount ELSE 0
  <2> DEFINE its == row.to = a
             K == {k \in DOMAIN treasury : treasury[k].to = a}
             L == {k \in DOMAIN treasury' : treasury'[k].to = a}
  <2>1. L = (IF its THEN K \cup {new} ELSE K) /\ K \in SUBSET DOMAIN treasury
    BY <1>1
  <2>2. Into(a) = SumFunction(AmountsOf(K)) /\ Into(a)' = SumFunction(AmountsAfter(L))
    BY DEF Into, SumTreasury, AmountsOf, AmountsAfter
  <2> HIDE DEF its, K, L
  <2>3. /\ SumFunction(AmountsOf(K)) \in Nat
        /\ SumFunction(AmountsAfter(K)) = SumFunction(AmountsOf(K))
        /\ SumFunction(AmountsAfter(K \cup {new})) = SumFunction(AmountsOf(K)) + row.amount
    BY <1>4, <2>1
  <2>4. CASE its
    BY <1>3, <2>1, <2>2, <2>3, <2>4 DEF its
  <2>5. CASE ~its
    BY <1>3, <2>1, <2>2, <2>3, <2>5 DEF its
  <2> QED
    BY <2>4, <2>5
<1>8. ASSUME NEW a
      PROVE  /\ OutOf(a) \in Nat
             /\ OutOf(a)' = OutOf(a) + IF row.from = a THEN row.amount ELSE 0
  <2> DEFINE its == row.from = a
             K == {k \in DOMAIN treasury : treasury[k].from = a}
             L == {k \in DOMAIN treasury' : treasury'[k].from = a}
  <2>1. L = (IF its THEN K \cup {new} ELSE K) /\ K \in SUBSET DOMAIN treasury
    BY <1>1
  <2>2. OutOf(a) = SumFunction(AmountsOf(K)) /\ OutOf(a)' = SumFunction(AmountsAfter(L))
    BY DEF OutOf, SumTreasury, AmountsOf, AmountsAfter
  <2> HIDE DEF its, K, L
  <2>3. /\ SumFunction(AmountsOf(K)) \in Nat
        /\ SumFunction(AmountsAfter(K)) = SumFunction(AmountsOf(K))
        /\ SumFunction(AmountsAfter(K \cup {new})) = SumFunction(AmountsOf(K)) + row.amount
    BY <1>4, <2>1
  <2>4. CASE its
    BY <1>3, <2>1, <2>2, <2>3, <2>4 DEF its
  <2>5. CASE ~its
    BY <1>3, <2>1, <2>2, <2>3, <2>5 DEF its
  <2> QED
    BY <2>4, <2>5
<1> QED
  BY <1>5, <1>6, <1>7, <1>8

LEMMA RowsKept ==
  ASSUME UNCHANGED treasury
  PROVE  /\ \A i : PaidOn(i)' = PaidOn(i)
         /\ \A type : OnAccount(type)' = OnAccount(type)
         /\ \A a : Into(a)' = Into(a) /\ OutOf(a)' = OutOf(a)
  BY DEF PaidOn, OnAccount, Into, OutOf, SumTreasury

-----------------------------------------------------------------------------
(* What the cheques and the invoices say.                                  *)

Drawn == {c \in ChequeIds : cheques[c].status # "absent"}

ChequesInv ==
  /\ cheques \in [ChequeIds -> ChequeRow]
  /\ IsFiniteSet(Drawn)
  /\ \A c \in Drawn : cheques[c].direction \in {"inbound", "outbound"}

\* What a cheque counts for in a sum of cheques.
Face(row, direction, statuses) ==
  IF row.direction = direction /\ row.status \in statuses THEN row.amount ELSE 0

LEMMA ChequeChanged ==
  ASSUME ChequesInv, NEW c \in ChequeIds, NEW row \in ChequeRow, cheques' = [cheques EXCEPT ![c] = row],
         NEW direction, NEW statuses, "absent" \notin statuses
  PROVE  /\ SumCheques(direction, statuses) \in Nat
         /\ SumCheques(direction, statuses)' =
              SumCheques(direction, statuses) - Face(cheques[c], direction, statuses)
              + Face(row, direction, statuses)
<1> DEFINE K == {x \in ChequeIds : cheques[x].direction = direction /\ cheques[x].status \in statuses}
           L == {x \in ChequeIds : cheques'[x].direction = direction /\ cheques'[x].status \in statuses}
           f == [x \in K |-> cheques[x].amount]
           g == [x \in L |-> cheques'[x].amount]
<1>0. \A x \in ChequeRow : x.amount \in Nat
  BY DEF ChequeRow
<1>1. /\ cheques'[c] = row /\ \A x \in ChequeIds \ {c} : cheques'[x] = cheques[x]
      /\ \A x \in ChequeIds : cheques[x] \in ChequeRow /\ cheques'[x] \in ChequeRow
  BY DEF ChequesInv
<1>2. K \subseteq Drawn
  BY DEF Drawn
<1>3. IsFiniteSet(K)
  BY <1>2, FS_Subset DEF ChequesInv
<1>4. /\ DOMAIN f = K /\ DOMAIN g = L /\ L \ {c} = K \ {c}
      /\ \A x \in K : f[x] \in Nat
      /\ \A x \in L : g[x] \in Nat
      /\ \A x \in K \ {c} : g[x] = f[x]
      /\ c \in K => f[c] = cheques[c].amount
      /\ c \in L => g[c] = row.amount
  BY <1>0, <1>1
<1>5. /\ c \in K <=> cheques[c].direction = direction /\ cheques[c].status \in statuses
      /\ c \in L <=> row.direction = direction /\ row.status \in statuses
  BY <1>1
<1>6. /\ SumCheques(direction, statuses) = SumFunction(f)
      /\ SumCheques(direction, statuses)' = SumFunction(g)
  BY DEF SumCheques
<1> HIDE DEF f, g, K, L
<1>7. SumFunction(f) \in Nat
  BY <1>3, <1>4, SumNat
<1>8. SumFunction(g) = SumFunction(f) - ValueAt(f, c) + ValueAt(g, c)
  BY <1>3, <1>4, SumChanges
<1>9. /\ ValueAt(f, c) = Face(cheques[c], direction, statuses)
      /\ ValueAt(g, c) = Face(row, direction, statuses)
  BY <1>4, <1>5 DEF ValueAt, Face
<1> QED
  BY <1>6, <1>7, <1>8, <1>9

\* What an invoice counts for in what is due.
Unpaid(row, kinds) == IF row.kind \in kinds THEN row.grand - row.paid ELSE 0

LEMMA DueChanged ==
  ASSUME InvoiceInv, InvoiceInv', NEW i \in InvoiceIds,
         \A b \in InvoiceIds \ {i} : invoices'[b] = invoices[b],
         NEW kinds, "none" \notin kinds
  PROVE  /\ Due(kinds) \in Int
         /\ Due(kinds)' = Due(kinds) - Unpaid(invoices[i], kinds) + Unpaid(invoices'[i], kinds)
<1> DEFINE K == {x \in InvoiceIds : invoices[x].kind \in kinds}
           L == {x \in InvoiceIds : invoices'[x].kind \in kinds}
           f == [x \in K |-> invoices[x].grand - invoices[x].paid]
           g == [x \in L |-> invoices'[x].grand - invoices'[x].paid]
<1>1. \A x \in InvoiceIds : /\ invoices[x].grand - invoices[x].paid \in Int
                            /\ invoices'[x].grand - invoices'[x].paid \in Int
  BY DEF InvoiceInv, InvoiceRow
<1>2. K \subseteq Issued
  BY DEF Issued
<1>3. IsFiniteSet(K)
  BY <1>2, FS_Subset DEF InvoiceInv
<1>4. /\ DOMAIN f = K /\ DOMAIN g = L /\ L \ {i} = K \ {i}
      /\ \A x \in K : f[x] \in Int
      /\ \A x \in L : g[x] \in Int
      /\ \A x \in K \ {i} : g[x] = f[x]
      /\ i \in K => f[i] = invoices[i].grand - invoices[i].paid
      /\ i \in L => g[i] = invoices'[i].grand - invoices'[i].paid
  BY <1>1
<1>5. (i \in K <=> invoices[i].kind \in kinds) /\ (i \in L <=> invoices'[i].kind \in kinds)
  OBVIOUS
<1>6. Due(kinds) = SumFunction(f) /\ Due(kinds)' = SumFunction(g)
  BY DEF Due
<1> HIDE DEF f, g, K, L
<1>7. SumFunction(f) \in Int
  BY <1>3, <1>4, SumInt
<1>8. SumFunction(g) = SumFunction(f) - ValueAt(f, i) + ValueAt(g, i)
  BY <1>3, <1>4, SumChanges
<1>9. ValueAt(f, i) = Unpaid(invoices[i], kinds) /\ ValueAt(g, i) = Unpaid(invoices'[i], kinds)
  BY <1>4, <1>5 DEF ValueAt, Unpaid
<1> QED
  BY <1>6, <1>7, <1>8, <1>9

\* What the treasury list leaves in account a.
Held(a) == Into(a) - OutOf(a)

\* MoneyAgrees, in the figures that the steps move.
Reckoned ==
  /\ Balance("receivable") =
       Due({"sale", "non_formal"}) - Due({"sale_return"}) - OnAccount("receipt")
       - SumCheques("inbound", {"pending", "cleared", "spent"})
  /\ Balance("payable") =
       Due({"purchase_return"}) - Due({"purchase"}) + OnAccount("payment")
       + SumCheques("outbound", {"pending", "cleared"}) + SumCheques("inbound", {"spent"})
  /\ Balance("chequeIn") = SumCheques("inbound", {"pending"})
  /\ Balance("chequeOut") = -SumCheques("outbound", {"pending"})
  /\ \A a \in CashAccounts : Balance(a) = Held(a)
  /\ \A i \in InvoiceIds : invoices[i].paid = PaidOn(i)

Listed == treasury \in Seq(TreasuryRow)

MoneyInv == Listed /\ InvoiceInv /\ JournalInv /\ ChequesInv /\ Reckoned

-----------------------------------------------------------------------------
(* The figures are numbers.                                                *)

LEMMA BalanceInt ==
  ASSUME JournalInv, NEW a \in MoneyAccounts
  PROVE  Balance(a) \in Int
<1> DEFINE f == [j \in journals |-> j.entry[a]]
<1>1. DOMAIN f = journals /\ IsFiniteSet(journals) /\ \A j \in journals : f[j] \in Int
  BY DEF JournalInv
<1>2. Balance(a) = SumFunction(f)
  BY DEF Balance
<1> HIDE DEF f
<1> QED
  BY <1>1, <1>2, SumInt

LEMMA ChequesNat ==
  ASSUME ChequesInv, NEW direction, NEW statuses, "absent" \notin statuses
  PROVE  SumCheques(direction, statuses) \in Nat
<1> DEFINE K == {c \in ChequeIds : /\ cheques[c].direction = direction
                                   /\ cheques[c].status \in statuses}
           f == [c \in K |-> cheques[c].amount]
<1>1. \A x \in ChequeRow : x.amount \in Nat
  BY DEF ChequeRow
<1>2. K \subseteq Drawn
  BY DEF Drawn
<1>3. IsFiniteSet(K)
  BY <1>2, FS_Subset DEF ChequesInv
<1>4. DOMAIN f = K /\ \A c \in K : f[c] \in Nat
  BY <1>1 DEF ChequesInv
<1>5. SumCheques(direction, statuses) = SumFunction(f)
  BY DEF SumCheques
<1> HIDE DEF f, K
<1> QED
  BY <1>3, <1>4, <1>5, SumNat

LEMMA DueInt ==
  ASSUME InvoiceInv, NEW kinds, "none" \notin kinds
  PROVE  Due(kinds) \in Int
<1> DEFINE K == {x \in InvoiceIds : invoices[x].kind \in kinds}
           f == [x \in K |-> invoices[x].grand - invoices[x].paid]
<1>1. \A x \in InvoiceIds : invoices[x].grand - invoices[x].paid \in Int
  BY DEF InvoiceInv, InvoiceRow
<1>2. K \subseteq Issued
  BY DEF Issued
<1>3. IsFiniteSet(K)
  BY <1>2, FS_Subset DEF InvoiceInv
<1>4. DOMAIN f = K /\ \A x \in K : f[x] \in Int
  BY <1>1
<1>5. Due(kinds) = SumFunction(f)
  BY DEF Due
<1> HIDE DEF f, K
<1> QED
  BY <1>3, <1>4, <1>5, SumInt

LEMMA TreasuryNat ==
  ASSUME Listed, NEW K \in SUBSET DOMAIN treasury
  PROVE  SumFunction(AmountsOf(K)) \in Nat
<1>1. \A x \in TreasuryRow : x.amount \in Nat
  BY DEF TreasuryRow
<1>2. /\ DOMAIN treasury = 1 .. Len(treasury) /\ Len(treasury) \in Nat
      /\ \A k \in DOMAIN treasury : treasury[k].amount \in Nat
  BY <1>1 DEF Listed
<1>3. IsFiniteSet(K)
  <2>1. IsFiniteSet(DOMAIN treasury)
    BY <1>2, FS_Interval
  <2> QED
    BY <2>1, FS_Subset
<1> DEFINE f == AmountsOf(K)
<1>4. DOMAIN f = K /\ \A k \in K : f[k] \in Nat
  BY <1>2 DEF AmountsOf
<1> HIDE DEF f
<1>5. SumFunction(f) \in Nat
  BY <1>3, <1>4, SumNat
<1> QED
  BY <1>5 DEF f

\* The figures of a state.
LEMMA Figures ==
  ASSUME Listed, InvoiceInv, JournalInv, ChequesInv
  PROVE  /\ \A a \in MoneyAccounts : Balance(a) \in Int
         /\ Due({"sale", "non_formal"}) \in Int /\ Due({"sale_return"}) \in Int
         /\ Due({"purchase_return"}) \in Int /\ Due({"purchase"}) \in Int
         /\ SumCheques("inbound", {"pending", "cleared", "spent"}) \in Nat
         /\ SumCheques("outbound", {"pending", "cleared"}) \in Nat
         /\ SumCheques("inbound", {"spent"}) \in Nat
         /\ SumCheques("inbound", {"pending"}) \in Nat
         /\ SumCheques("outbound", {"pending"}) \in Nat
         /\ OnAccount("receipt") \in Nat /\ OnAccount("payment") \in Nat
         /\ \A a : Held(a) \in Int
         /\ \A i : PaidOn(i) \in Nat
<1>1. \A a \in MoneyAccounts : Balance(a) \in Int
  BY BalanceInt
<1>2. /\ Due({"sale", "non_formal"}) \in Int /\ Due({"sale_return"}) \in Int
      /\ Due({"purchase_return"}) \in Int /\ Due({"purchase"}) \in Int
  <2>1. \A kinds : "none" \notin kinds => Due(kinds) \in Int
    BY DueInt
  <2> QED
    BY <2>1
<1>3. /\ SumCheques("inbound", {"pending", "cleared", "spent"}) \in Nat
      /\ SumCheques("outbound", {"pending", "cleared"}) \in Nat
      /\ SumCheques("inbound", {"spent"}) \in Nat
      /\ SumCheques("inbound", {"pending"}) \in Nat
      /\ SumCheques("outbound", {"pending"}) \in Nat
  <2>1. \A direction, statuses : "absent" \notin statuses => SumCheques(direction, statuses) \in Nat
    BY ChequesNat
  <2> QED
    BY <2>1
<1>4. ASSUME NEW type PROVE OnAccount(type) \in Nat
  <2> DEFINE K == {k \in DOMAIN treasury : treasury[k].type = type /\ treasury[k].ref = None}
  <2>1. OnAccount(type) = SumFunction(AmountsOf(K)) /\ K \in SUBSET DOMAIN treasury
    BY DEF OnAccount, SumTreasury, AmountsOf
  <2> HIDE DEF K
  <2> QED
    BY <2>1, TreasuryNat
<1>5. ASSUME NEW a PROVE Into(a) \in Nat
  <2> DEFINE K == {k \in DOMAIN treasury : treasury[k].to = a}
  <2>1. Into(a) = SumFunction(AmountsOf(K)) /\ K \in SUBSET DOMAIN treasury
    BY DEF Into, SumTreasury, AmountsOf
  <2> HIDE DEF K
  <2> QED
    BY <2>1, TreasuryNat
<1>6. ASSUME NEW a PROVE OutOf(a) \in Nat
  <2> DEFINE K == {k \in DOMAIN treasury : treasury[k].from = a}
  <2>1. OutOf(a) = SumFunction(AmountsOf(K)) /\ K \in SUBSET DOMAIN treasury
    BY DEF OutOf, SumTreasury, AmountsOf
  <2> HIDE DEF K
  <2> QED
    BY <2>1, TreasuryNat
<1>7. ASSUME NEW i PROVE PaidOn(i) \in Nat
  <2> DEFINE K == {k \in DOMAIN treasury : treasury[k].ref = <<"invoice", i>>}
  <2>1. PaidOn(i) = SumFunction(AmountsOf(K)) /\ K \in SUBSET DOMAIN treasury
    BY DEF PaidOn, SumTreasury, AmountsOf
  <2> HIDE DEF K
  <2> QED
    BY <2>1, TreasuryNat
<1>8. \A a : Held(a) \in Int
  BY <1>5, <1>6 DEF Held
<1> QED
  BY <1>1, <1>2, <1>3, <1>4, <1>7, <1>8

-----------------------------------------------------------------------------
(* What a command moves.                                                   *)

\* A journal adds its entry to every balance.
LEMMA Posted ==
  ASSUME JournalInv, NEW kind, NEW id, NEW d, NEW lines, Unposted(kind, id),
         journals' = journals \cup {Posting(kind, id, d, lines)},
         \A a \in MoneyAccounts : Entry(lines)[a] \in Int,
         Len(treasury) \in Nat, Len(treasury') \in Nat, Len(treasury) <= Len(treasury'),
         kind = "treasury" => id \in 1 .. Len(treasury')
  PROVE  /\ JournalInv'
         /\ \A a \in MoneyAccounts : Balance(a)' = Balance(a) + Entry(lines)[a]
<1> DEFINE j == Posting(kind, id, d, lines)
<1>1. j.source = <<kind, id>> /\ j.entry = Entry(lines)
  BY DEF Posting
<1> HIDE DEF j
<1>2. j \notin journals
  BY <1>1 DEF Unposted
<1>3. journals' = journals \cup {j} /\ \A a \in MoneyAccounts : j.entry[a] \in Int
  BY <1>1 DEF j
<1>4. /\ IsFiniteSet(journals')
      /\ \A a \in MoneyAccounts : Balance(a)' = Balance(a) + j.entry[a]
  BY <1>2, <1>3, JournalAdded
<1>5. JournalInv'
  BY <1>1, <1>3, <1>4 DEF JournalInv
<1> QED
  BY <1>1, <1>4, <1>5

LEMMA NothingPosted ==
  ASSUME JournalInv, UNCHANGED journals,
         Len(treasury) \in Nat, Len(treasury') \in Nat, Len(treasury) <= Len(treasury')
  PROVE  /\ JournalInv'
         /\ \A a \in MoneyAccounts : Balance(a)' = Balance(a)
  BY DEF JournalInv, Balance

\* A receipt or a payment moves its amount on its account.
LEMMA CashMoved ==
  ASSUME Listed, NEW type \in {"receipt", "payment"}, NEW account \in CashAccounts,
         NEW n \in Nat, NEW ref \in Refs, NEW d \in Dates,
         treasury' = Append(treasury, Transaction(type, account, n, ref, d))
  PROVE  /\ Listed' /\ Len(treasury) \in Nat /\ Len(treasury') = Len(treasury) + 1
         /\ \A i : PaidOn(i)' = PaidOn(i) + IF ref = <<"invoice", i>> THEN n ELSE 0
         /\ OnAccount("receipt")' = OnAccount("receipt")
              + IF type = "receipt" /\ ref = None THEN n ELSE 0
         /\ OnAccount("payment")' = OnAccount("payment")
              + IF type = "payment" /\ ref = None THEN n ELSE 0
         /\ \A a \in CashAccounts : a # account => Held(a)' = Held(a)
         /\ Held(account)' = Held(account) + IF type = "receipt" THEN n ELSE -n
<1> DEFINE row == Transaction(type, account, n, ref, d)
<1>1. /\ row \in TreasuryRow /\ row.type = type /\ row.amount = n /\ row.ref = ref
      /\ row.from = (IF type = "receipt" THEN None ELSE account)
      /\ row.to = (IF type = "receipt" THEN account ELSE None)
  BY TransactionIsRow DEF Transaction
<1>2. treasury' = Append(treasury, row)
  OBVIOUS
<1> HIDE DEF row
<1>3. Listed' /\ Len(treasury) \in Nat /\ Len(treasury') = Len(treasury) + 1
  BY <1>1, <1>2 DEF Listed
<1>4. /\ \A i : /\ PaidOn(i) \in Nat
                /\ PaidOn(i)' = PaidOn(i) + IF row.ref = <<"invoice", i>> THEN row.amount ELSE 0
      /\ \A t : /\ OnAccount(t) \in Nat
                /\ OnAccount(t)' = OnAccount(t)
                     + IF row.type = t /\ row.ref = None THEN row.amount ELSE 0
      /\ \A a : /\ Into(a) \in Nat /\ OutOf(a) \in Nat
                /\ Into(a)' = Into(a) + IF row.to = a THEN row.amount ELSE 0
                /\ OutOf(a)' = OutOf(a) + IF row.from = a THEN row.amount ELSE 0
  BY <1>1, <1>2, RowAdded DEF Listed
<1>5. None \notin CashAccounts
  BY AccountsApart
<1>6. /\ OnAccount("receipt")' = OnAccount("receipt")
           + IF type = "receipt" /\ ref = None THEN n ELSE 0
      /\ OnAccount("payment")' = OnAccount("payment")
           + IF type = "payment" /\ ref = None THEN n ELSE 0
  BY <1>1, <1>4
<1>7. ASSUME NEW a \in CashAccounts, a # account PROVE Held(a)' = Held(a)
  BY <1>1, <1>4, <1>5, <1>7 DEF Held
<1>8. Held(account)' = Held(account) + IF type = "receipt" THEN n ELSE -n
  BY <1>1, <1>4, <1>5 DEF Held
<1> QED
  BY <1>1, <1>3, <1>4, <1>6, <1>7, <1>8

LEMMA CashKept ==
  ASSUME UNCHANGED treasury
  PROVE  /\ Listed' = Listed
         /\ \A i : PaidOn(i)' = PaidOn(i)
         /\ OnAccount("receipt")' = OnAccount("receipt")
         /\ OnAccount("payment")' = OnAccount("payment")
         /\ \A a : Held(a)' = Held(a)
  BY RowsKept DEF Listed, Held

\* The journal of a receipt or a payment.
LEMMA CashEntry ==
  ASSUME NEW type \in {"receipt", "payment"}, NEW account \in CashAccounts, NEW n \in Nat,
         NEW other \in {"receivable", "payable"}, NEW a \in MoneyAccounts
  PROVE  Entry(CashLines(type, account, other, n))[a] =
           IF a = account THEN IF type = "receipt" THEN n ELSE -n
           ELSE IF a = other THEN IF type = "receipt" THEN -n ELSE n
           ELSE 0
<1> DEFINE lines == CashLines(type, account, other, n)
<1>1. account # other /\ a \in Accounts /\ n \in Int /\ -n \in Int
  BY AccountsApart DEF ControlAccounts
<1>2. IF type = "receipt" THEN TwoSided(lines, account, n, other, -n)
                          ELSE TwoSided(lines, other, n, account, -n)
  BY <1>1 DEF CashLines, Line, TwoSided
<1> HIDE DEF lines
<1>3. Entry(lines)[a] = IF type = "receipt"
                        THEN IF a = account THEN n ELSE IF a = other THEN -n ELSE 0
                        ELSE IF a = other THEN n ELSE IF a = account THEN -n ELSE 0
  BY <1>1, <1>2, TwoLines
<1> QED
  BY <1>1, <1>3 DEF lines

\* A cheque drawn or changed moves its face between the sums of cheques.
LEMMA FacesMoved ==
  ASSUME ChequesInv, NEW c \in ChequeIds, NEW row \in ChequeRow, row.status # "absent",
         row.direction \in {"inbound", "outbound"}, cheques' = [cheques EXCEPT ![c] = row]
  PROVE  /\ ChequesInv'
         /\ \A direction, statuses : "absent" \notin statuses =>
              SumCheques(direction, statuses)' =
                SumCheques(direction, statuses) - Face(cheques[c], direction, statuses)
                + Face(row, direction, statuses)
<1>1. /\ cheques' \in [ChequeIds -> ChequeRow] /\ cheques'[c] = row
      /\ \A b \in ChequeIds \ {c} : cheques'[b] = cheques[b]
  BY DEF ChequesInv
<1>2. Drawn' = Drawn \cup {c}
  BY <1>1 DEF Drawn
<1>3. IsFiniteSet(Drawn')
  BY <1>2, FS_AddElement DEF ChequesInv
<1>4. \A b \in Drawn' : cheques'[b].direction \in {"inbound", "outbound"}
  BY <1>1, <1>2 DEF ChequesInv, Drawn
<1>5. ChequesInv'
  BY <1>1, <1>3, <1>4 DEF ChequesInv
<1>6. ASSUME NEW direction, NEW statuses, "absent" \notin statuses
      PROVE  SumCheques(direction, statuses)' =
               SumCheques(direction, statuses) - Face(cheques[c], direction, statuses)
               + Face(row, direction, statuses)
  BY <1>6, ChequeChanged
<1> QED
  BY <1>5, <1>6

LEMMA FacesKept ==
  ASSUME UNCHANGED cheques
  PROVE  /\ ChequesInv' = ChequesInv
         /\ \A direction, statuses : SumCheques(direction, statuses)' = SumCheques(direction, statuses)
  BY DEF ChequesInv, Drawn, SumCheques

LEMMA InvoicesKept ==
  ASSUME UNCHANGED invoices
  PROVE  /\ InvoiceInv' = InvoiceInv
         /\ \A kinds : Due(kinds)' = Due(kinds)
  BY DEF InvoiceInv, Issued, Due

-----------------------------------------------------------------------------
(* What each command does to the figures.                                  *)

LEMMA KindsApart ==
  ASSUME NEW kind \in OriginalKinds \cup ReturnKinds
  PROVE  /\ kind \in {"sale", "non_formal", "purchase", "sale_return", "purchase_return"}
         /\ ControlAccount(kind) = IF kind \in {"sale", "non_formal", "sale_return"}
                                   THEN "receivable" ELSE "payable"
         /\ SettledBy(kind) = IF kind \in {"sale", "non_formal", "purchase_return"}
                              THEN "receipt" ELSE "payment"
  BY DEF OriginalKinds, ReturnKinds, ControlAccount, SettledBy

LEMMA MoneyNames ==
  /\ {"receivable", "payable", "chequeIn", "chequeOut"} \subseteq MoneyAccounts
  /\ CashAccounts \subseteq MoneyAccounts
  /\ \A a \in CashAccounts : a \notin {"receivable", "payable", "chequeIn", "chequeOut"}
  BY AccountsApart DEF MoneyAccounts, ControlAccounts

\* The journal of a receipt or a payment moves the account and the control
\* account, and no other.
LEMMA CashPosted ==
  ASSUME Listed, JournalInv, NEW type \in {"receipt", "payment"}, NEW account \in CashAccounts,
         NEW n \in Nat, NEW other \in {"receivable", "payable"}, NEW d,
         Unposted("treasury", NextTx), Len(treasury') = Len(treasury) + 1,
         journals' = journals
           \cup {Posting("treasury", NextTx, d, CashLines(type, account, other, n))}
  PROVE  LET in == IF type = "receipt" THEN n ELSE -n
         IN  /\ JournalInv'
             /\ \A a \in CashAccounts :
                  Balance(a)' = Balance(a) + IF a = account THEN in ELSE 0
             /\ \A a \in {"receivable", "payable", "chequeIn", "chequeOut"} :
                  Balance(a)' = Balance(a) + IF a = other THEN -in ELSE 0
<1> DEFINE lines == CashLines(type, account, other, n)
           in == IF type = "receipt" THEN n ELSE -n
<1>1. \A a \in MoneyAccounts :
        Entry(lines)[a] = IF a = account THEN IF type = "receipt" THEN n ELSE -n
                          ELSE IF a = other THEN IF type = "receipt" THEN -n ELSE n
                          ELSE 0
  BY CashEntry
<1>2. /\ Len(treasury) \in Nat /\ Len(treasury') \in Nat /\ Len(treasury) <= Len(treasury')
      /\ NextTx \in 1 .. Len(treasury')
  BY DEF Listed, NextTx
<1> HIDE DEF lines
<1>3. \A a \in MoneyAccounts : Entry(lines)[a] \in Int
  BY <1>1
<1>4. /\ JournalInv'
      /\ \A a \in MoneyAccounts : Balance(a)' = Balance(a) + Entry(lines)[a]
  BY <1>2, <1>3, Posted DEF lines
<1>5. \A a \in CashAccounts : Balance(a)' = Balance(a) + IF a = account THEN in ELSE 0
  BY <1>1, <1>4, MoneyNames
<1>6. \A a \in {"receivable", "payable", "chequeIn", "chequeOut"} :
        Balance(a)' = Balance(a) + IF a = other THEN -in ELSE 0
  BY <1>1, <1>4, MoneyNames
<1> QED
  BY <1>4, <1>5, <1>6

LEMMA SettleMoney ==
  ASSUME MoneyInv, NEW i \in InvoiceIds, NEW type \in {"receipt", "payment"},
         NEW account \in CashAccounts, NEW n \in CashAmounts, NEW d \in Dates,
         SettleInvoice(i, type, account, n, d)
  PROVE  MoneyInv'
<1> DEFINE kind == invoices[i].kind
           control == ControlAccount(kind)
           lines == CashLines(type, account, control, n)
           ref == <<"invoice", i>>
<1>1. n \in Nat /\ n > 0
  BY RetailAssumption
<1>2. /\ Settles(i, type, n) /\ type = SettledBy(kind)
      /\ Unposted("treasury", NextTx)
      /\ journals' = journals \cup {Posting("treasury", NextTx, d, lines)}
      /\ treasury' = Append(treasury, Transaction(type, account, n, ref, d))
      /\ UNCHANGED cheques
  BY DEF SettleInvoice, Settles, CanSettle, Journal, Record
<1>3. ref \in Refs /\ ref # None /\ \A b \in InvoiceIds : ref = <<"invoice", b>> <=> b = i
  BY RetailAssumption DEF Refs
<1>4. /\ InvoiceInv' /\ i \in Issued /\ invoices'[i].paid = invoices[i].paid + n
      /\ invoices'[i].kind = kind /\ invoices'[i].grand = invoices[i].grand
      /\ \A b \in InvoiceIds \ {i} : invoices'[b] = invoices[b]
      /\ invoices[i].paid \in Nat /\ invoices[i].grand \in Nat
      /\ kind \in OriginalKinds \cup ReturnKinds
  <2>1. /\ InvoiceInv' /\ i \in Issued /\ invoices'[i].paid = invoices[i].paid + n
        /\ invoices'[i].kind = kind /\ invoices'[i].grand = invoices[i].grand
        /\ \A b \in InvoiceIds \ {i} : invoices'[b] = invoices[b]
    BY <1>2, SettlesKeeps DEF MoneyInv
  <2> QED
    BY <2>1 DEF MoneyInv, InvoiceInv, InvoiceRow, Issued
<1>5. control \in {"receivable", "payable"}
  BY DEF ControlAccount
<1> HIDE DEF kind, control, ref
<1>6. /\ Listed' /\ Len(treasury) \in Nat /\ Len(treasury') = Len(treasury) + 1
      /\ \A b \in InvoiceIds : PaidOn(b)' = PaidOn(b) + IF b = i THEN n ELSE 0
      /\ OnAccount("receipt")' = OnAccount("receipt") /\ OnAccount("payment")' = OnAccount("payment")
      /\ \A a \in CashAccounts : a # account => Held(a)' = Held(a)
      /\ Held(account)' = Held(account) + IF type = "receipt" THEN n ELSE -n
  <2>1. Listed
    BY DEF MoneyInv
  <2>2. /\ Listed' /\ Len(treasury) \in Nat /\ Len(treasury') = Len(treasury) + 1
        /\ \A b : PaidOn(b)' = PaidOn(b) + IF ref = <<"invoice", b>> THEN n ELSE 0
        /\ OnAccount("receipt")' = OnAccount("receipt")
             + IF type = "receipt" /\ ref = None THEN n ELSE 0
        /\ OnAccount("payment")' = OnAccount("payment")
             + IF type = "payment" /\ ref = None THEN n ELSE 0
        /\ \A a \in CashAccounts : a # account => Held(a)' = Held(a)
        /\ Held(account)' = Held(account) + IF type = "receipt" THEN n ELSE -n
    BY <1>1, <1>2, <1>3, <2>1, CashMoved
  <2>3. OnAccount("receipt") \in Nat /\ OnAccount("payment") \in Nat
    BY Figures DEF MoneyInv
  <2> QED
    BY <1>3, <2>2, <2>3
<1>7. JournalInv /\ Listed
  BY DEF MoneyInv
<1>8. /\ JournalInv'
      /\ \A a \in CashAccounts : Balance(a)' = Balance(a)
           + IF a = account THEN IF type = "receipt" THEN n ELSE -n ELSE 0
      /\ \A a \in {"receivable", "payable", "chequeIn", "chequeOut"} :
           Balance(a)' = Balance(a)
             + IF a = control THEN -(IF type = "receipt" THEN n ELSE -n) ELSE 0
  BY <1>1, <1>2, <1>5, <1>6, <1>7, CashPosted
<1>9. \A kinds : "none" \notin kinds =>
        Due(kinds)' = Due(kinds) - IF kind \in kinds THEN n ELSE 0
  <2> SUFFICES ASSUME NEW kinds, "none" \notin kinds
               PROVE  Due(kinds)' = Due(kinds) - IF kind \in kinds THEN n ELSE 0
    OBVIOUS
  <2>1. /\ Due(kinds) \in Int
        /\ Due(kinds)' = Due(kinds) - Unpaid(invoices[i], kinds) + Unpaid(invoices'[i], kinds)
    BY <1>4, DueChanged DEF MoneyInv
  <2>2. Unpaid(invoices[i], kinds) = IF kind \in kinds THEN invoices[i].grand - invoices[i].paid ELSE 0
    BY DEF Unpaid, kind
  <2>3. Unpaid(invoices'[i], kinds)
          = IF kind \in kinds THEN invoices[i].grand - (invoices[i].paid + n) ELSE 0
    BY <1>4 DEF Unpaid
  <2> QED
    BY <1>1, <1>4, <2>1, <2>2, <2>3
<1>10. ChequesInv' /\ \A direction, statuses :
         SumCheques(direction, statuses)' = SumCheques(direction, statuses)
  BY <1>2, FacesKept DEF MoneyInv
<1>11. Reckoned'
  <2>1. Reckoned
    BY DEF MoneyInv
  <2>2. /\ Due({"sale", "non_formal"})' = Due({"sale", "non_formal"}) - IF kind \in {"sale", "non_formal"} THEN n ELSE 0
        /\ Due({"sale_return"})' = Due({"sale_return"}) - IF kind = "sale_return" THEN n ELSE 0
        /\ Due({"purchase_return"})' = Due({"purchase_return"}) - IF kind = "purchase_return" THEN n ELSE 0
        /\ Due({"purchase"})' = Due({"purchase"}) - IF kind = "purchase" THEN n ELSE 0
    BY <1>9
  <2>3. /\ \A a \in MoneyAccounts : Balance(a) \in Int
        /\ Due({"sale", "non_formal"}) \in Int /\ Due({"sale_return"}) \in Int
        /\ Due({"purchase_return"}) \in Int /\ Due({"purchase"}) \in Int
        /\ SumCheques("inbound", {"pending", "cleared", "spent"}) \in Nat
        /\ SumCheques("outbound", {"pending", "cleared"}) \in Nat
        /\ SumCheques("inbound", {"spent"}) \in Nat
        /\ OnAccount("receipt") \in Nat /\ OnAccount("payment") \in Nat
        /\ \A a : Held(a) \in Int
        /\ \A b : PaidOn(b) \in Nat
    BY Figures DEF MoneyInv
  <2>4. /\ kind \in {"sale", "non_formal", "purchase", "sale_return", "purchase_return"}
        /\ control = IF kind \in {"sale", "non_formal", "sale_return"}
                     THEN "receivable" ELSE "payable"
        /\ type = IF kind \in {"sale", "non_formal", "purchase_return"}
                  THEN "receipt" ELSE "payment"
    BY <1>2, <1>4, KindsApart DEF control
  <2>5. /\ Balance("receivable")' = Balance("receivable")
             + IF control = "receivable" THEN IF type = "receipt" THEN -n ELSE n ELSE 0
        /\ Balance("payable")' = Balance("payable")
             + IF control = "payable" THEN IF type = "receipt" THEN -n ELSE n ELSE 0
        /\ Balance("chequeIn")' = Balance("chequeIn")
        /\ Balance("chequeOut")' = Balance("chequeOut")
    BY <1>1, <1>5, <1>8, <2>3, MoneyNames
  <2>6. \A a \in CashAccounts : Balance(a)' = Held(a)'
    <3>1. ASSUME NEW a \in CashAccounts PROVE Balance(a)' = Held(a)'
      <4>1. Balance(a) \in Int /\ Held(a) \in Int /\ Balance(a) = Held(a)
        BY <2>1, <2>3, MoneyNames DEF Reckoned
      <4> QED
        BY <1>1, <1>6, <1>8, <4>1
    <3> QED
      BY <3>1
  <2>7. \A b \in InvoiceIds : invoices'[b].paid = PaidOn(b)'
    <3>1. \A b \in InvoiceIds : invoices[b].paid = PaidOn(b)
      BY <2>1 DEF Reckoned
    <3>2. ASSUME NEW b \in InvoiceIds, b # i PROVE invoices'[b].paid = PaidOn(b)'
      BY <1>4, <1>6, <2>3, <3>1, <3>2
    <3>3. invoices'[i].paid = PaidOn(i)'
      BY <1>4, <1>6, <3>1
    <3> QED
      BY <3>2, <3>3
  <2>8. /\ Balance("receivable")' =
             Due({"sale", "non_formal"})' - Due({"sale_return"})' - OnAccount("receipt")'
             - SumCheques("inbound", {"pending", "cleared", "spent"})'
        /\ Balance("payable")' =
             Due({"purchase_return"})' - Due({"purchase"})' + OnAccount("payment")'
             + SumCheques("outbound", {"pending", "cleared"})' + SumCheques("inbound", {"spent"})'
    <3>1. /\ Balance("receivable") =
                Due({"sale", "non_formal"}) - Due({"sale_return"}) - OnAccount("receipt")
                - SumCheques("inbound", {"pending", "cleared", "spent"})
          /\ Balance("payable") =
                Due({"purchase_return"}) - Due({"purchase"}) + OnAccount("payment")
                + SumCheques("outbound", {"pending", "cleared"}) + SumCheques("inbound", {"spent"})
      BY <2>1 DEF Reckoned
    <3>2. /\ SumCheques("inbound", {"pending", "cleared", "spent"})'
                = SumCheques("inbound", {"pending", "cleared", "spent"})
          /\ SumCheques("outbound", {"pending", "cleared"})' = SumCheques("outbound", {"pending", "cleared"})
          /\ SumCheques("inbound", {"spent"})' = SumCheques("inbound", {"spent"})
          /\ OnAccount("receipt")' = OnAccount("receipt")
          /\ OnAccount("payment")' = OnAccount("payment")
      BY <1>6, <1>10
    <3>3. CASE kind \in {"sale", "non_formal"}
      BY <1>1, <2>2, <2>3, <2>4, <2>5, <3>1, <3>2, <3>3
    <3>4. CASE kind = "sale_return"
      BY <1>1, <2>2, <2>3, <2>4, <2>5, <3>1, <3>2, <3>4
    <3>5. CASE kind = "purchase"
      BY <1>1, <2>2, <2>3, <2>4, <2>5, <3>1, <3>2, <3>5
    <3>6. CASE kind = "purchase_return"
      BY <1>1, <2>2, <2>3, <2>4, <2>5, <3>1, <3>2, <3>6
    <3> QED
      BY <2>4, <3>3, <3>4, <3>5, <3>6
  <2> QED
    BY <1>10, <2>1, <2>5, <2>6, <2>7, <2>8 DEF Reckoned
<1> QED
  BY <1>4, <1>6, <1>8, <1>10, <1>11 DEF MoneyInv

\* A command that touches neither an invoice nor a cheque.
LEMMA CashOnly ==
  ASSUME MoneyInv, UNCHANGED <<invoices, cheques>>, Listed', JournalInv',
         \A i \in InvoiceIds : PaidOn(i)' = PaidOn(i),
         NEW received \in Int, OnAccount("receipt")' = OnAccount("receipt") + received,
         Balance("receivable")' = Balance("receivable") - received,
         NEW paidOut \in Int, OnAccount("payment")' = OnAccount("payment") + paidOut,
         Balance("payable")' = Balance("payable") + paidOut,
         Balance("chequeIn")' = Balance("chequeIn"),
         Balance("chequeOut")' = Balance("chequeOut"),
         \A a \in CashAccounts :
           \E m \in Int : Balance(a)' = Balance(a) + m /\ Held(a)' = Held(a) + m
  PROVE  MoneyInv'
<1>1. Reckoned /\ InvoiceInv' /\ ChequesInv'
  BY InvoicesKept, FacesKept DEF MoneyInv
<1>2. \A kinds : Due(kinds)' = Due(kinds)
  BY InvoicesKept
<1>3. \A direction, statuses : SumCheques(direction, statuses)' = SumCheques(direction, statuses)
  BY FacesKept
<1>4. /\ Balance("receivable") \in Int /\ Balance("payable") \in Int
      /\ Due({"sale", "non_formal"}) \in Int /\ Due({"sale_return"}) \in Int
      /\ Due({"purchase_return"}) \in Int /\ Due({"purchase"}) \in Int
      /\ SumCheques("inbound", {"pending", "cleared", "spent"}) \in Nat
      /\ SumCheques("outbound", {"pending", "cleared"}) \in Nat
      /\ SumCheques("inbound", {"spent"}) \in Nat
      /\ OnAccount("receipt") \in Nat /\ OnAccount("payment") \in Nat
      /\ \A a \in CashAccounts : Balance(a) \in Int /\ Held(a) \in Int
      /\ \A i \in InvoiceIds : PaidOn(i) \in Nat
  BY Figures, MoneyNames DEF MoneyInv
<1>5. \A a \in CashAccounts : Balance(a)' = Held(a)'
  BY <1>1, <1>4 DEF Reckoned
<1>6. Balance("receivable")' =
        Due({"sale", "non_formal"})' - Due({"sale_return"})' - OnAccount("receipt")'
        - SumCheques("inbound", {"pending", "cleared", "spent"})'
  BY <1>1, <1>2, <1>3, <1>4 DEF Reckoned
<1>7. Balance("payable")' =
        Due({"purchase_return"})' - Due({"purchase"})' + OnAccount("payment")'
        + SumCheques("outbound", {"pending", "cleared"})' + SumCheques("inbound", {"spent"})'
  BY <1>1, <1>2, <1>3, <1>4 DEF Reckoned
<1>8. Reckoned'
  BY <1>1, <1>3, <1>5, <1>6, <1>7 DEF Reckoned
<1> QED
  BY <1>1, <1>8 DEF MoneyInv

LEMMA OnAccountMoney ==
  ASSUME MoneyInv, NEW type \in {"receipt", "payment"}, NEW account \in CashAccounts,
         NEW n \in CashAmounts, NEW d \in Dates, CashOnAccount(type, account, n, d)
  PROVE  MoneyInv'
<1> DEFINE control == IF type = "receipt" THEN "receivable" ELSE "payable"
           received == IF type = "receipt" THEN n ELSE 0
           paidOut == IF type = "payment" THEN n ELSE 0
           in == IF type = "receipt" THEN n ELSE -n
<1>1. n \in Nat /\ None \in Refs /\ \A i \in InvoiceIds : None # <<"invoice", i>>
  BY RetailAssumption DEF Refs
<1>2. /\ Unposted("treasury", NextTx)
      /\ journals' = journals
           \cup {Posting("treasury", NextTx, d, CashLines(type, account, control, n))}
      /\ treasury' = Append(treasury, Transaction(type, account, n, None, d))
      /\ UNCHANGED <<invoices, cheques>>
  BY DEF CashOnAccount, Journal, Record
<1>3. control \in {"receivable", "payable"} /\ Listed /\ JournalInv
  BY DEF MoneyInv
<1>4. /\ OnAccount("receipt") \in Nat /\ OnAccount("payment") \in Nat
      /\ \A i : PaidOn(i) \in Nat /\ \A a : Held(a) \in Int
  BY Figures DEF MoneyInv
<1>5. \A a \in MoneyAccounts : Balance(a) \in Int
  BY <1>3, BalanceInt
<1> HIDE DEF control
<1>6. /\ Listed' /\ Len(treasury) \in Nat /\ Len(treasury') = Len(treasury) + 1
      /\ \A i : PaidOn(i)' = PaidOn(i) + IF None = <<"invoice", i>> THEN n ELSE 0
      /\ OnAccount("receipt")' = OnAccount("receipt") + IF type = "receipt" /\ None = None THEN n ELSE 0
      /\ OnAccount("payment")' = OnAccount("payment") + IF type = "payment" /\ None = None THEN n ELSE 0
      /\ \A a \in CashAccounts : a # account => Held(a)' = Held(a)
      /\ Held(account)' = Held(account) + in
  BY <1>1, <1>2, <1>3, CashMoved
<1>7. /\ JournalInv'
      /\ \A a \in CashAccounts : Balance(a)' = Balance(a) + IF a = account THEN in ELSE 0
      /\ \A a \in {"receivable", "payable", "chequeIn", "chequeOut"} :
           Balance(a)' = Balance(a) + IF a = control THEN -in ELSE 0
  BY <1>1, <1>2, <1>3, <1>6, CashPosted
<1>8. /\ Balance("receivable")' = Balance("receivable") - received
      /\ Balance("payable")' = Balance("payable") + paidOut
      /\ Balance("chequeIn")' = Balance("chequeIn") /\ Balance("chequeOut")' = Balance("chequeOut")
  BY <1>1, <1>3, <1>5, <1>7, MoneyNames DEF control
<1>9. \A i \in InvoiceIds : PaidOn(i)' = PaidOn(i)
  BY <1>1, <1>4, <1>6
<1>10. ASSUME NEW a \in CashAccounts
       PROVE  \E m \in Int : Balance(a)' = Balance(a) + m /\ Held(a)' = Held(a) + m
  <2>1. CASE a = account
    <3>1. Balance(a)' = Balance(a) + in /\ Held(a)' = Held(a) + in /\ in \in Int
      BY <1>1, <1>6, <1>7, <2>1
    <3> QED
      BY <3>1
  <2>2. CASE a # account
    <3>1. Balance(a)' = Balance(a) + 0 /\ Held(a)' = Held(a) + 0
      BY <1>4, <1>6, <1>7, <2>2
    <3> QED
      BY <3>1
  <2> QED
    BY <2>1, <2>2
<1>11. /\ received \in Int /\ OnAccount("receipt")' = OnAccount("receipt") + received
       /\ paidOut \in Int /\ OnAccount("payment")' = OnAccount("payment") + paidOut
  BY <1>1, <1>4, <1>6
<1> HIDE DEF received, paidOut
<1> QED
  BY <1>2, <1>6, <1>7, <1>8, <1>9, <1>10, <1>11, CashOnly

LEMMA TransferMoney ==
  ASSUME MoneyInv, NEW from \in CashAccounts, NEW to \in CashAccounts, NEW n \in CashAmounts,
         NEW d \in Dates, TransferCash(from, to, n, d)
  PROVE  MoneyInv'
<1> DEFINE row == [type |-> "transfer", amount |-> n, ref |-> None, date |-> d,
                   from |-> from, to |-> to]
           lines == <<Line(to, n), Line(from, -n)>>
           moved(a) == IF a = to THEN n ELSE IF a = from THEN -n ELSE 0
<1>1. /\ n \in Nat /\ None \in Refs /\ None \notin CashAccounts /\ from # to
      /\ \A i \in InvoiceIds : None # <<"invoice", i>>
  BY RetailAssumption DEF Refs, TransferCash
<1>2. /\ Unposted("treasury", NextTx)
      /\ journals' = journals \cup {Posting("treasury", NextTx, d, lines)}
      /\ treasury' = Append(treasury, row)
      /\ UNCHANGED <<invoices, cheques>>
  BY DEF TransferCash, Journal, Record
<1>3. /\ row \in TreasuryRow /\ row.type = "transfer" /\ row.amount = n /\ row.ref = None
      /\ row.from = from /\ row.to = to
  BY <1>1 DEF TreasuryRow
<1>4. TwoSided(lines, to, n, from, -n)
  BY <1>1 DEF TwoSided, Line
<1> HIDE DEF row, lines
<1>5. /\ Listed /\ JournalInv /\ \A a \in MoneyAccounts : Balance(a) \in Int
  BY BalanceInt DEF MoneyInv
<1>6. /\ Listed' /\ Len(treasury) \in Nat /\ Len(treasury') = Len(treasury) + 1
      /\ NextTx \in 1 .. Len(treasury') /\ Len(treasury') \in Nat
      /\ Len(treasury) <= Len(treasury')
  BY <1>2, <1>3, <1>5 DEF Listed, NextTx
<1>7. /\ \A i : /\ PaidOn(i) \in Nat
                /\ PaidOn(i)' = PaidOn(i) + IF row.ref = <<"invoice", i>> THEN row.amount ELSE 0
      /\ \A t : /\ OnAccount(t) \in Nat
                /\ OnAccount(t)' = OnAccount(t)
                     + IF row.type = t /\ row.ref = None THEN row.amount ELSE 0
      /\ \A a : /\ Into(a) \in Nat /\ OutOf(a) \in Nat
                /\ Into(a)' = Into(a) + IF row.to = a THEN row.amount ELSE 0
                /\ OutOf(a)' = OutOf(a) + IF row.from = a THEN row.amount ELSE 0
  BY <1>2, <1>3, <1>5, RowAdded DEF Listed
<1>8. \A a \in MoneyAccounts : Entry(lines)[a] = moved(a) /\ moved(a) \in Int
  <2>1. \A a \in MoneyAccounts : a \in Accounts
    BY AccountsApart
  <2> QED
    BY <1>1, <1>4, <2>1, TwoLines
<1>9. /\ JournalInv'
      /\ \A a \in MoneyAccounts : Balance(a)' = Balance(a) + Entry(lines)[a]
  BY <1>2, <1>5, <1>6, <1>8, Posted
<1>10. /\ Balance("receivable")' = Balance("receivable") - 0
       /\ Balance("payable")' = Balance("payable") + 0
       /\ Balance("chequeIn")' = Balance("chequeIn") /\ Balance("chequeOut")' = Balance("chequeOut")
  BY <1>5, <1>8, <1>9, MoneyNames
<1>11. /\ \A i \in InvoiceIds : PaidOn(i)' = PaidOn(i)
       /\ OnAccount("receipt")' = OnAccount("receipt") + 0
       /\ OnAccount("payment")' = OnAccount("payment") + 0
  BY <1>1, <1>3, <1>7
<1>12. ASSUME NEW a \in CashAccounts
       PROVE  \E m \in Int : Balance(a)' = Balance(a) + m /\ Held(a)' = Held(a) + m
  <2>1. /\ Balance(a)' = Balance(a) + moved(a) /\ moved(a) \in Int
    BY <1>8, <1>9, MoneyNames
  <2>2. Held(a)' = Held(a) + moved(a)
    BY <1>1, <1>3, <1>7 DEF Held
  <2> HIDE DEF moved
  <2> QED
    BY <2>1, <2>2
<1> QED
  BY <1>2, <1>6, <1>9, <1>10, <1>11, <1>12, CashOnly

LEMMA ExpenseMoves ==
  ASSUME MoneyInv, NEW e \in ExpenseIds, NEW income \in BOOLEAN, NEW account \in CashAccounts,
         NEW n \in CashAmounts, NEW d \in Dates, PostExpense(e, income, account, n, d)
  PROVE  MoneyInv'
<1> DEFINE type == IF income THEN "receipt" ELSE "payment"
           ref == <<"expense", e>>
           in == IF type = "receipt" THEN n ELSE -n
           lines == IF income THEN <<Line(account, n), Line("otherRevenue", -n)>>
                              ELSE <<Line("expense", n), Line(account, -n)>>
<1>1. /\ n \in Nat /\ in \in Int
      /\ ref \in Refs /\ ref # None /\ \A i : ref # <<"invoice", i>>
  BY RetailAssumption DEF Refs
<1>2. /\ Unposted("expense", e)
      /\ journals' = journals \cup {Posting("expense", e, d, lines)}
      /\ treasury' = Append(treasury, Transaction(type, account, n, ref, d))
      /\ UNCHANGED <<invoices, cheques>>
  BY DEF PostExpense, Journal, Record
<1>3. /\ type \in {"receipt", "payment"}
      /\ IF type = "receipt" THEN TwoSided(lines, account, n, "otherRevenue", -n)
                             ELSE TwoSided(lines, "expense", n, account, -n)
  BY <1>1, AccountsApart DEF TwoSided, Line, ControlAccounts
<1> HIDE DEF type, ref, lines
<1>4. /\ Listed /\ JournalInv /\ \A a \in MoneyAccounts : Balance(a) \in Int
      /\ OnAccount("receipt") \in Nat /\ OnAccount("payment") \in Nat
      /\ \A i : PaidOn(i) \in Nat /\ \A a : Held(a) \in Int
  BY Figures DEF MoneyInv
<1>5. /\ Listed' /\ Len(treasury) \in Nat /\ Len(treasury') = Len(treasury) + 1
      /\ \A i : PaidOn(i)' = PaidOn(i) + IF ref = <<"invoice", i>> THEN n ELSE 0
      /\ OnAccount("receipt")' = OnAccount("receipt") + IF type = "receipt" /\ ref = None THEN n ELSE 0
      /\ OnAccount("payment")' = OnAccount("payment") + IF type = "payment" /\ ref = None THEN n ELSE 0
      /\ \A a \in CashAccounts : a # account => Held(a)' = Held(a)
      /\ Held(account)' = Held(account) + in
  BY <1>1, <1>2, <1>3, <1>4, CashMoved
<1> HIDE DEF in
<1>6. \A a \in MoneyAccounts :
        Entry(lines)[a] = IF a = account THEN in ELSE 0
  <2>1. \A a \in MoneyAccounts : a \in Accounts /\ a \notin {"otherRevenue", "expense"}
    BY AccountsApart DEF MoneyAccounts, ControlAccounts
  <2> QED
    BY <1>3, <2>1, TwoLines DEF in
<1>7. \A a \in MoneyAccounts : Entry(lines)[a] \in Int
  BY <1>1, <1>6
<1>8. /\ JournalInv'
      /\ \A a \in MoneyAccounts : Balance(a)' = Balance(a) + Entry(lines)[a]
  <2>1. Len(treasury') \in Nat /\ Len(treasury) <= Len(treasury')
    BY <1>5
  <2> QED
    BY <1>2, <1>4, <1>5, <1>7, <2>1, Posted
<1>9. /\ Balance("receivable")' = Balance("receivable") - 0
      /\ Balance("payable")' = Balance("payable") + 0
      /\ Balance("chequeIn")' = Balance("chequeIn") /\ Balance("chequeOut")' = Balance("chequeOut")
  BY <1>4, <1>6, <1>8, MoneyNames
<1>10. /\ \A i \in InvoiceIds : PaidOn(i)' = PaidOn(i)
       /\ OnAccount("receipt")' = OnAccount("receipt") + 0
       /\ OnAccount("payment")' = OnAccount("payment") + 0
  BY <1>1, <1>4, <1>5
<1>11. ASSUME NEW a \in CashAccounts
       PROVE  \E m \in Int : Balance(a)' = Balance(a) + m /\ Held(a)' = Held(a) + m
  <2> DEFINE m == IF a = account THEN in ELSE 0
  <2>1. Balance(a)' = Balance(a) + m /\ m \in Int
    BY <1>1, <1>6, <1>8, MoneyNames
  <2>2. Held(a)' = Held(a) + m
    BY <1>4, <1>5
  <2> HIDE DEF m
  <2> QED
    BY <2>1, <2>2
<1> QED
  BY <1>2, <1>5, <1>8, <1>9, <1>10, <1>11, CashOnly

\* The journal of a stocktake is about goods only.
LEMMA StocktakeMoney ==
  ASSUME MoneyInv, NEW s \in StocktakeIds, FinalizeStocktake(s)
  PROVE  MoneyInv'
<1>1. UNCHANGED <<invoices, treasury, cheques>>
  BY DEF FinalizeStocktake, money
<1>2. \/ UNCHANGED journals
      \/ \E n, m, d :
           Journal("stocktake", s, d, <<Line("inventory", n), Line("variance", -n),
                                        Line("variance", m), Line("inventory", -m)>>)
  BY DEF FinalizeStocktake, VarianceLines
<1>3. /\ Listed /\ JournalInv /\ \A a \in MoneyAccounts : Balance(a) \in Int
      /\ OnAccount("receipt") \in Nat /\ OnAccount("payment") \in Nat
      /\ \A a : Held(a) \in Int
  BY Figures DEF MoneyInv
<1>4. /\ Listed' /\ Len(treasury) \in Nat /\ Len(treasury') \in Nat
      /\ Len(treasury) <= Len(treasury')
  BY <1>1, <1>3 DEF Listed
<1>5. JournalInv' /\ \A a \in MoneyAccounts : Balance(a)' = Balance(a)
  <2>1. ASSUME NEW n, NEW m, NEW d,
               Journal("stocktake", s, d, <<Line("inventory", n), Line("variance", -n),
                                            Line("variance", m), Line("inventory", -m)>>)
        PROVE  JournalInv' /\ \A a \in MoneyAccounts : Balance(a)' = Balance(a)
    <3> DEFINE lines == <<Line("inventory", n), Line("variance", -n),
                          Line("variance", m), Line("inventory", -m)>>
    <3>1. /\ Unposted("stocktake", s)
          /\ journals' = journals \cup {Posting("stocktake", s, d, lines)}
      BY <2>1 DEF Journal
    <3>2. /\ DOMAIN lines = 1 .. 4
          /\ lines[1].account = "inventory" /\ lines[2].account = "variance"
          /\ lines[3].account = "variance" /\ lines[4].account = "inventory"
      BY DEF Line
    <3> HIDE DEF lines
    <3>3. \A k \in DOMAIN lines : lines[k].account \in {"inventory", "variance"}
      BY <3>2
    <3>4. \A a \in MoneyAccounts : a \in Accounts /\ a \notin {"inventory", "variance"}
      BY AccountsApart DEF MoneyAccounts, ControlAccounts
    <3>5. \A a \in MoneyAccounts : Entry(lines)[a] = 0
      BY <3>3, <3>4, EntryOfNone
    <3>6. JournalInv' /\ \A a \in MoneyAccounts : Balance(a)' = Balance(a) + Entry(lines)[a]
      BY <1>3, <1>4, <3>1, <3>5, Posted
    <3> QED
      BY <1>3, <3>5, <3>6
  <2>2. CASE UNCHANGED journals
    BY <1>3, <1>4, <2>2, NothingPosted
  <2> QED
    BY <1>2, <2>1, <2>2
<1>6. /\ \A i \in InvoiceIds : PaidOn(i)' = PaidOn(i)
      /\ OnAccount("receipt")' = OnAccount("receipt") + 0
      /\ OnAccount("payment")' = OnAccount("payment") + 0
      /\ \A a : Held(a)' = Held(a) + 0
  BY <1>1, <1>3, CashKept
<1>7. /\ \A a \in CashAccounts : Balance(a)' = Balance(a) + 0
      /\ Balance("receivable")' = Balance("receivable") - 0
      /\ Balance("payable")' = Balance("payable") + 0
      /\ Balance("chequeIn")' = Balance("chequeIn") /\ Balance("chequeOut")' = Balance("chequeOut")
  BY <1>3, <1>5, MoneyNames
<1>8. \A a \in CashAccounts :
        \E m \in Int : Balance(a)' = Balance(a) + m /\ Held(a)' = Held(a) + m
  BY <1>6, <1>7
<1> QED
  BY <1>1, <1>4, <1>5, <1>6, <1>7, <1>8, CashOnly

\* The journal of a cheque has two lines.
LEMMA TwoPosted ==
  ASSUME JournalInv, NEW kind \in {"cheque", "cheque_status"}, NEW id, NEW d, NEW lines,
         NEW x, NEW y, NEW n, NEW m, TwoSided(lines, x, n, y, m), Unposted(kind, id),
         journals' = journals \cup {Posting(kind, id, d, lines)},
         Len(treasury) \in Nat, Len(treasury') \in Nat, Len(treasury) <= Len(treasury')
  PROVE  /\ JournalInv'
         /\ \A a \in MoneyAccounts :
              Balance(a)' = Balance(a) + IF a = x THEN n ELSE IF a = y THEN m ELSE 0
<1>1. \A a \in MoneyAccounts : Entry(lines)[a] = IF a = x THEN n ELSE IF a = y THEN m ELSE 0
  <2>1. \A a \in MoneyAccounts : a \in Accounts
    BY AccountsApart
  <2> QED
    BY <2>1, TwoLines
<1>2. \A a \in MoneyAccounts : Entry(lines)[a] \in Int
  BY <1>1 DEF TwoSided
<1>3. kind # "treasury"
  OBVIOUS
<1>4. /\ JournalInv'
      /\ \A a \in MoneyAccounts : Balance(a)' = Balance(a) + Entry(lines)[a]
  BY <1>2, <1>3, Posted
<1> QED
  BY <1>1, <1>4

\* A command on one cheque: what its sums, its journal and its money come to.
LEMMA ChequeCommand ==
  ASSUME MoneyInv, Listed', JournalInv', UNCHANGED invoices,
         NEW c \in ChequeIds, NEW row \in ChequeRow, row.status # "absent",
         row.direction \in {"inbound", "outbound"}, cheques' = [cheques EXCEPT ![c] = row],
         \A i \in InvoiceIds : PaidOn(i)' = PaidOn(i),
         OnAccount("receipt")' = OnAccount("receipt"),
         OnAccount("payment")' = OnAccount("payment"),
         \A a \in CashAccounts :
           \E m \in Int : Balance(a)' = Balance(a) + m /\ Held(a)' = Held(a) + m,
         LET change(direction, statuses) ==
               Face(row, direction, statuses) - Face(cheques[c], direction, statuses)
         IN  /\ Balance("receivable")' = Balance("receivable")
                  - change("inbound", {"pending", "cleared", "spent"})
             /\ Balance("payable")' = Balance("payable")
                  + change("outbound", {"pending", "cleared"}) + change("inbound", {"spent"})
             /\ Balance("chequeIn")' = Balance("chequeIn") + change("inbound", {"pending"})
             /\ Balance("chequeOut")' = Balance("chequeOut") - change("outbound", {"pending"})
  PROVE  MoneyInv'
<1> DEFINE before(direction, statuses) == Face(cheques[c], direction, statuses)
           after(direction, statuses) == Face(row, direction, statuses)
<1>1. Reckoned /\ InvoiceInv' /\ \A kinds : Due(kinds)' = Due(kinds)
  BY InvoicesKept DEF MoneyInv
<1>2. /\ ChequesInv'
      /\ \A direction, statuses : "absent" \notin statuses =>
           SumCheques(direction, statuses)' =
             SumCheques(direction, statuses) - before(direction, statuses)
             + after(direction, statuses)
  BY FacesMoved DEF MoneyInv
<1>3. \A direction, statuses : before(direction, statuses) \in Nat /\ after(direction, statuses) \in Nat
  <2>1. \A x \in ChequeRow : x.amount \in Nat
    BY DEF ChequeRow
  <2>2. cheques[c] \in ChequeRow
    BY DEF MoneyInv, ChequesInv
  <2> QED
    BY <2>1, <2>2 DEF Face
<1> HIDE DEF before, after
<1>4. /\ Balance("receivable") \in Int /\ Balance("payable") \in Int
      /\ Balance("chequeIn") \in Int /\ Balance("chequeOut") \in Int
      /\ Due({"sale", "non_formal"}) \in Int /\ Due({"sale_return"}) \in Int
      /\ Due({"purchase_return"}) \in Int /\ Due({"purchase"}) \in Int
      /\ SumCheques("inbound", {"pending", "cleared", "spent"}) \in Nat
      /\ SumCheques("outbound", {"pending", "cleared"}) \in Nat
      /\ SumCheques("inbound", {"spent"}) \in Nat
      /\ SumCheques("inbound", {"pending"}) \in Nat
      /\ SumCheques("outbound", {"pending"}) \in Nat
      /\ OnAccount("receipt") \in Nat /\ OnAccount("payment") \in Nat
      /\ \A a \in CashAccounts : Balance(a) \in Int /\ Held(a) \in Int
  BY Figures, MoneyNames DEF MoneyInv
<1>5. /\ Balance("receivable")' = Balance("receivable")
           - (after("inbound", {"pending", "cleared", "spent"})
                - before("inbound", {"pending", "cleared", "spent"}))
      /\ Balance("payable")' = Balance("payable")
           + (after("outbound", {"pending", "cleared"}) - before("outbound", {"pending", "cleared"}))
           + (after("inbound", {"spent"}) - before("inbound", {"spent"}))
      /\ Balance("chequeIn")' = Balance("chequeIn")
           + (after("inbound", {"pending"}) - before("inbound", {"pending"}))
      /\ Balance("chequeOut")' = Balance("chequeOut")
           - (after("outbound", {"pending"}) - before("outbound", {"pending"}))
  BY DEF before, after
<1>6. /\ SumCheques("inbound", {"pending", "cleared", "spent"})' =
           SumCheques("inbound", {"pending", "cleared", "spent"})
           - before("inbound", {"pending", "cleared", "spent"})
           + after("inbound", {"pending", "cleared", "spent"})
      /\ SumCheques("outbound", {"pending", "cleared"})' =
           SumCheques("outbound", {"pending", "cleared"})
           - before("outbound", {"pending", "cleared"}) + after("outbound", {"pending", "cleared"})
      /\ SumCheques("inbound", {"spent"})' =
           SumCheques("inbound", {"spent"}) - before("inbound", {"spent"}) + after("inbound", {"spent"})
      /\ SumCheques("inbound", {"pending"})' =
           SumCheques("inbound", {"pending"}) - before("inbound", {"pending"}) + after("inbound", {"pending"})
      /\ SumCheques("outbound", {"pending"})' =
           SumCheques("outbound", {"pending"}) - before("outbound", {"pending"}) + after("outbound", {"pending"})
  BY <1>2
<1>7. \A a \in CashAccounts : Balance(a)' = Held(a)'
  BY <1>1, <1>4 DEF Reckoned
<1>8. Balance("receivable")' =
        Due({"sale", "non_formal"})' - Due({"sale_return"})' - OnAccount("receipt")'
        - SumCheques("inbound", {"pending", "cleared", "spent"})'
  BY <1>1, <1>3, <1>4, <1>5, <1>6 DEF Reckoned
<1>9. Balance("payable")' =
        Due({"purchase_return"})' - Due({"purchase"})' + OnAccount("payment")'
        + SumCheques("outbound", {"pending", "cleared"})' + SumCheques("inbound", {"spent"})'
  BY <1>1, <1>3, <1>4, <1>5, <1>6 DEF Reckoned
<1>10. /\ Balance("chequeIn")' = SumCheques("inbound", {"pending"})'
       /\ Balance("chequeOut")' = -SumCheques("outbound", {"pending"})'
  BY <1>1, <1>3, <1>4, <1>5, <1>6 DEF Reckoned
<1>11. Reckoned'
  BY <1>1, <1>7, <1>8, <1>9, <1>10 DEF Reckoned
<1> QED
  BY <1>1, <1>2, <1>11 DEF MoneyInv

LEMMA PostChequeMoney ==
  ASSUME MoneyInv, NEW c \in ChequeIds, NEW direction \in {"inbound", "outbound"},
         NEW n \in CashAmounts, NEW d \in Dates, PostCheque(c, direction, n, d)
  PROVE  MoneyInv'
<1> DEFINE row == [NoCheque EXCEPT !.status = "pending", !.direction = direction,
                                   !.amount = n, !.issued = d]
           lines == IF direction = "inbound"
                    THEN <<Line("chequeIn", n), Line("receivable", -n)>>
                    ELSE <<Line("payable", n), Line("chequeOut", -n)>>
           x == IF direction = "inbound" THEN "chequeIn" ELSE "payable"
           y == IF direction = "inbound" THEN "receivable" ELSE "chequeOut"
<1>1. n \in Nat /\ d \in Nat
  BY RetailAssumption
<1>2. /\ Unposted("cheque", c) /\ cheques[c].status = "absent"
      /\ journals' = journals \cup {Posting("cheque", c, d, lines)}
      /\ cheques' = [cheques EXCEPT ![c] = row]
      /\ UNCHANGED <<invoices, treasury>>
  BY DEF PostCheque, Journal
<1>3. /\ row \in ChequeRow /\ row.status = "pending" /\ row.direction = direction
      /\ row.amount = n
  BY <1>1 DEF ChequeRow, NoCheque
<1>4. TwoSided(lines, x, n, y, -n)
  BY <1>1 DEF TwoSided, Line
<1> HIDE DEF row, lines, x, y
<1>5. /\ Listed /\ JournalInv /\ \A a \in MoneyAccounts : Balance(a) \in Int
      /\ OnAccount("receipt") \in Nat /\ OnAccount("payment") \in Nat
      /\ \A a : Held(a) \in Int
  BY Figures DEF MoneyInv
<1>6. /\ Listed' /\ Len(treasury) \in Nat /\ Len(treasury') \in Nat
      /\ Len(treasury) <= Len(treasury')
  BY <1>2, <1>5 DEF Listed
<1>7. /\ JournalInv'
      /\ \A a \in MoneyAccounts :
           Balance(a)' = Balance(a) + IF a = x THEN n ELSE IF a = y THEN -n ELSE 0
  <2>1. /\ Unposted("cheque", c)
        /\ journals' = journals \cup {Posting("cheque", c, d, lines)}
        /\ JournalInv /\ Len(treasury) \in Nat /\ Len(treasury') \in Nat
        /\ Len(treasury) <= Len(treasury') /\ n \in Nat
    BY <1>1, <1>2, <1>5, <1>6
  <2> QED
    BY <1>4, <2>1, TwoPosted, SMTT(20)
<1>8. /\ \A i \in InvoiceIds : PaidOn(i)' = PaidOn(i)
      /\ OnAccount("receipt")' = OnAccount("receipt")
      /\ OnAccount("payment")' = OnAccount("payment")
      /\ \A a : Held(a)' = Held(a) + 0
  BY <1>2, <1>5, CashKept
<1>9. \A a \in CashAccounts :
        \E m \in Int : Balance(a)' = Balance(a) + m /\ Held(a)' = Held(a) + m
  <2>1. \A a \in CashAccounts : Balance(a)' = Balance(a) + 0
    BY <1>1, <1>5, <1>7, MoneyNames DEF x, y
  <2> QED
    BY <1>8, <2>1
<1>10. \A to, statuses : "absent" \notin statuses => Face(cheques[c], to, statuses) = 0
  BY <1>2 DEF Face
<1>11. \A to, statuses : Face(row, to, statuses) = IF direction = to /\ "pending" \in statuses THEN n ELSE 0
  BY <1>3 DEF Face
<1>12. /\ Balance("receivable")' = Balance("receivable") - IF direction = "inbound" THEN n ELSE 0
       /\ Balance("payable")' = Balance("payable") + IF direction = "outbound" THEN n ELSE 0
       /\ Balance("chequeIn")' = Balance("chequeIn") + IF direction = "inbound" THEN n ELSE 0
       /\ Balance("chequeOut")' = Balance("chequeOut") - IF direction = "outbound" THEN n ELSE 0
  BY <1>1, <1>5, <1>7, MoneyNames DEF x, y
<1> DEFINE change(to, statuses) == Face(row, to, statuses) - Face(cheques[c], to, statuses)
<1>13. /\ change("inbound", {"pending", "cleared", "spent"}) = IF direction = "inbound" THEN n ELSE 0
       /\ change("outbound", {"pending", "cleared"}) = IF direction = "outbound" THEN n ELSE 0
       /\ change("inbound", {"spent"}) = 0
       /\ change("inbound", {"pending"}) = IF direction = "inbound" THEN n ELSE 0
       /\ change("outbound", {"pending"}) = IF direction = "outbound" THEN n ELSE 0
  BY <1>1, <1>10, <1>11
<1> HIDE DEF change
<1>14. /\ Balance("receivable")' = Balance("receivable")
            - change("inbound", {"pending", "cleared", "spent"})
       /\ Balance("payable")' = Balance("payable")
            + change("outbound", {"pending", "cleared"}) + change("inbound", {"spent"})
       /\ Balance("chequeIn")' = Balance("chequeIn") + change("inbound", {"pending"})
       /\ Balance("chequeOut")' = Balance("chequeOut") - change("outbound", {"pending"})
  BY <1>1, <1>5, <1>12, <1>13, MoneyNames
<1> QED
  BY <1>2, <1>3, <1>6, <1>7, <1>8, <1>9, <1>14, ChequeCommand DEF change

LEMMA StatusMoney ==
  ASSUME MoneyInv, NEW c \in ChequeIds, NEW status \in {"cleared", "bounced", "returned", "spent"},
         NEW account \in CashAccounts, NEW d \in Dates, ChangeChequeStatus(c, status, account, d)
  PROVE  MoneyInv'
<1> DEFINE old == cheques[c]
           n == old.amount
           inbound == old.direction = "inbound"
           chosen == IF status = "cleared" THEN account ELSE None
           row == [old EXCEPT !.status = status, !.settled = d, !.account = chosen]
           target == ChequeTarget(c, status, account)
           lines == IF inbound THEN <<Line(target, n), Line("chequeIn", -n)>>
                               ELSE <<Line("chequeOut", n), Line(target, -n)>>
           x == IF inbound THEN target ELSE "chequeOut"
           y == IF inbound THEN "chequeIn" ELSE target
           type == IF inbound THEN "receipt" ELSE "payment"
           ref == <<"cheque", c>>
<1>1. /\ old \in ChequeRow /\ n \in Nat /\ d \in Nat /\ old.status = "pending"
      /\ old.direction \in {"inbound", "outbound"}
      /\ status = "spent" => inbound
      /\ Unposted("cheque_status", c)
      /\ journals' = journals \cup {Posting("cheque_status", c, d, lines)}
      /\ cheques' = [cheques EXCEPT ![c] = row]
      /\ IF status = "cleared" THEN treasury' = Append(treasury, Transaction(type, account, n, ref, d))
                               ELSE UNCHANGED treasury
      /\ UNCHANGED invoices
  <2>1. /\ cheques[c].status = "pending" /\ (status = "spent" => inbound)
        /\ Unposted("cheque_status", c)
        /\ journals' = journals \cup {Posting("cheque_status", c, d, lines)}
        /\ IF status = "cleared" THEN treasury' = Append(treasury, Transaction(type, account, n, ref, d))
                                 ELSE UNCHANGED treasury
        /\ UNCHANGED invoices
    BY DEF ChangeChequeStatus, MayChange, Journal, Record
  <2>2. cheques \in [ChequeIds -> ChequeRow] /\ cheques[c] \in ChequeRow
    BY DEF MoneyInv, ChequesInv
  <2>3. cheques[c].direction \in {"inbound", "outbound"} /\ n \in Nat
    BY <2>1, <2>2 DEF MoneyInv, ChequesInv, Drawn, ChequeRow
  <2>4. cheques' = [cheques EXCEPT ![c].status = status, ![c].settled = d, ![c].account = chosen]
    BY DEF ChangeChequeStatus
  <2> HIDE DEF chosen
  <2>5. cheques' = [cheques EXCEPT ![c] = row]
    BY <2>2, <2>4
  <2>6. d \in Nat
    BY RetailAssumption
  <2> HIDE DEF row, lines
  <2> QED
    BY <2>1, <2>2, <2>3, <2>5, <2>6
<1>2. /\ row \in ChequeRow /\ row.status = status /\ row.amount = n
      /\ row.direction = old.direction
  <2>1. chosen \in CashAccounts \cup {None}
    OBVIOUS
  <2> HIDE DEF chosen, old
  <2> QED
    BY <1>1, <2>1 DEF ChequeRow
<1>3. /\ target = CASE status = "cleared" -> account
                   [] status = "spent" -> "payable"
                   [] OTHER -> IF inbound THEN "receivable" ELSE "payable"
  BY DEF ChequeTarget
<1>4. /\ status = "cleared" => target = account
      /\ status = "spent" => target = "payable"
      /\ status \in {"bounced", "returned"} => target = IF inbound THEN "receivable" ELSE "payable"
  BY <1>3
<1> HIDE DEF target
<1>5. TwoSided(lines, x, n, y, -n)
  BY <1>1, <1>4, MoneyNames DEF TwoSided, Line
<1>6. type \in {"receipt", "payment"} /\ (type = "receipt" <=> inbound)
      /\ ref \in Refs /\ ref # None /\ \A i : ref # <<"invoice", i>>
  BY RetailAssumption DEF Refs
<1> HIDE DEF row, lines, old, x, y, type, ref, inbound
<1>7. /\ Listed /\ JournalInv /\ \A a \in MoneyAccounts : Balance(a) \in Int
      /\ OnAccount("receipt") \in Nat /\ OnAccount("payment") \in Nat
      /\ \A a : Held(a) \in Int /\ \A i : PaidOn(i) \in Nat
  BY Figures DEF MoneyInv
<1> DEFINE in == IF status = "cleared" THEN IF inbound THEN n ELSE -n ELSE 0
<1>8. /\ Listed' /\ Len(treasury) \in Nat /\ Len(treasury') \in Nat
      /\ Len(treasury) <= Len(treasury')
      /\ \A i \in InvoiceIds : PaidOn(i)' = PaidOn(i)
      /\ OnAccount("receipt")' = OnAccount("receipt")
      /\ OnAccount("payment")' = OnAccount("payment")
      /\ \A a \in CashAccounts : Held(a)' = Held(a) + IF a = account THEN in ELSE 0
  <2>1. CASE status = "cleared"
    <3>1. treasury' = Append(treasury, Transaction(type, account, n, ref, d))
      BY <1>1, <2>1
    <3>2. /\ Listed' /\ Len(treasury) \in Nat /\ Len(treasury') = Len(treasury) + 1
          /\ \A i : PaidOn(i)' = PaidOn(i) + IF ref = <<"invoice", i>> THEN n ELSE 0
          /\ OnAccount("receipt")' = OnAccount("receipt") + IF type = "receipt" /\ ref = None THEN n ELSE 0
          /\ OnAccount("payment")' = OnAccount("payment") + IF type = "payment" /\ ref = None THEN n ELSE 0
          /\ \A a \in CashAccounts : a # account => Held(a)' = Held(a)
          /\ Held(account)' = Held(account) + IF type = "receipt" THEN n ELSE -n
      BY <1>1, <1>6, <1>7, <3>1, CashMoved
    <3> QED
      BY <1>1, <1>6, <1>7, <2>1, <3>2
  <2>2. CASE status # "cleared"
    <3>1. UNCHANGED treasury
      BY <1>1, <2>2
    <3>2. /\ Listed' = Listed
          /\ \A i : PaidOn(i)' = PaidOn(i)
          /\ OnAccount("receipt")' = OnAccount("receipt")
          /\ OnAccount("payment")' = OnAccount("payment")
          /\ \A a : Held(a)' = Held(a)
      BY <3>1, CashKept
    <3>3. Len(treasury) \in Nat
      BY <1>7 DEF Listed
    <3> QED
      BY <1>7, <2>2, <3>1, <3>2, <3>3
  <2> QED
    BY <2>1, <2>2
<1>9. /\ JournalInv'
      /\ \A a \in MoneyAccounts :
           Balance(a)' = Balance(a) + IF a = x THEN n ELSE IF a = y THEN -n ELSE 0
  <2>1. /\ Unposted("cheque_status", c)
        /\ journals' = journals \cup {Posting("cheque_status", c, d, lines)}
        /\ JournalInv /\ Len(treasury) \in Nat /\ Len(treasury') \in Nat
        /\ Len(treasury) <= Len(treasury') /\ n \in Nat
    BY <1>1, <1>7, <1>8
  <2> HIDE DEF in, n, chosen
  <2> QED
    BY <1>5, <2>1, TwoPosted, SMTT(20)
<1>10. ASSUME NEW a \in CashAccounts
       PROVE  \E m \in Int : Balance(a)' = Balance(a) + m /\ Held(a)' = Held(a) + m
  <2> DEFINE m == IF a = account THEN in ELSE 0
  <2>1. m \in Int
    BY <1>1
  <2>2. Balance(a)' = Balance(a) + m
    BY <1>1, <1>4, <1>7, <1>9, MoneyNames DEF x, y
  <2>3. Held(a)' = Held(a) + m
    BY <1>8
  <2> HIDE DEF m
  <2> QED
    BY <2>1, <2>2, <2>3
<1> DEFINE change(to, statuses) == Face(row, to, statuses) - Face(cheques[c], to, statuses)
<1>11. \A to, statuses :
         /\ Face(row, to, statuses) = IF old.direction = to /\ status \in statuses THEN n ELSE 0
         /\ Face(cheques[c], to, statuses) = IF old.direction = to /\ "pending" \in statuses THEN n ELSE 0
  BY <1>1, <1>2 DEF Face, old
<1>12. /\ change("inbound", {"pending", "cleared", "spent"}) =
            IF inbound /\ status \in {"bounced", "returned"} THEN -n ELSE 0
       /\ change("outbound", {"pending", "cleared"}) =
            IF ~inbound /\ status \in {"bounced", "returned"} THEN -n ELSE 0
       /\ change("inbound", {"spent"}) = IF status = "spent" THEN n ELSE 0
       /\ change("inbound", {"pending"}) = IF inbound THEN -n ELSE 0
       /\ change("outbound", {"pending"}) = IF inbound THEN 0 ELSE -n
  BY <1>1, <1>11 DEF inbound
<1> HIDE DEF change
<1>13. /\ Balance("receivable")' = Balance("receivable")
            - change("inbound", {"pending", "cleared", "spent"})
       /\ Balance("payable")' = Balance("payable")
            + change("outbound", {"pending", "cleared"}) + change("inbound", {"spent"})
       /\ Balance("chequeIn")' = Balance("chequeIn") + change("inbound", {"pending"})
       /\ Balance("chequeOut")' = Balance("chequeOut") - change("outbound", {"pending"})
  <2>1. /\ Balance("receivable")' = Balance("receivable")
             + IF inbound THEN IF target = "receivable" THEN n ELSE 0
               ELSE IF target = "receivable" THEN -n ELSE 0
        /\ Balance("payable")' = Balance("payable")
             + IF inbound THEN IF target = "payable" THEN n ELSE 0
               ELSE IF target = "payable" THEN -n ELSE 0
        /\ Balance("chequeIn")' = Balance("chequeIn") + IF inbound THEN -n ELSE 0
        /\ Balance("chequeOut")' = Balance("chequeOut") + IF inbound THEN 0 ELSE n
    BY <1>1, <1>4, <1>7, <1>9, MoneyNames DEF x, y
  <2>2. /\ Balance("receivable") \in Int /\ Balance("payable") \in Int
        /\ Balance("chequeIn") \in Int /\ Balance("chequeOut") \in Int
        /\ target = "receivable" <=> inbound /\ status \in {"bounced", "returned"}
        /\ target = "payable" <=> status = "spent" \/ (~inbound /\ status \in {"bounced", "returned"})
        /\ status = "spent" => inbound
    BY <1>1, <1>4, <1>7, MoneyNames
  <2>3. CASE inbound
    BY <1>1, <1>12, <2>1, <2>2, <2>3
  <2>4. CASE ~inbound
    BY <1>1, <1>12, <2>1, <2>2, <2>4
  <2> QED
    BY <2>3, <2>4
<1>14. row.status # "absent" /\ row.direction \in {"inbound", "outbound"}
  BY <1>1, <1>2
<1> QED
  BY <1>1, <1>2, <1>8, <1>9, <1>10, <1>13, <1>14, ChequeCommand DEF change

\* An invoice and its down payment are two journals.
LEMMA BothPosted ==
  ASSUME Listed, JournalInv, NEW i, NEW d, NEW lines, NEW cash, Unposted("invoice", i),
         journals' = journals \cup {Posting("invoice", i, d, lines),
                                    Posting("treasury", NextTx, d, cash)},
         \A a \in MoneyAccounts : Entry(lines)[a] \in Int /\ Entry(cash)[a] \in Int,
         Len(treasury') = Len(treasury) + 1
  PROVE  /\ JournalInv'
         /\ \A a \in MoneyAccounts :
              Balance(a)' = Balance(a) + Entry(lines)[a] + Entry(cash)[a]
<1> DEFINE j == Posting("invoice", i, d, lines)
           k == Posting("treasury", NextTx, d, cash)
           J == journals \cup {j}
<1>1. /\ j.source = <<"invoice", i>> /\ j.entry = Entry(lines)
      /\ k.source = <<"treasury", NextTx>> /\ k.entry = Entry(cash)
      /\ journals' = J \cup {k}
  BY DEF Posting
<1>2. Len(treasury) \in Nat /\ NextTx = Len(treasury) + 1
  BY DEF Listed, NextTx
<1> HIDE DEF j, k
<1>3. j \notin journals
  BY <1>1 DEF Unposted
<1>4. k \notin J
  <2>1. k.source[1] = "treasury" /\ k.source[2] \notin 1 .. Len(treasury) /\ k # j
    BY <1>1, <1>2
  <2> QED
    BY <2>1 DEF JournalInv
<1>5. IsFiniteSet(journals) /\ IsFiniteSet(J) /\ IsFiniteSet(journals')
  <2>1. IsFiniteSet(journals)
    BY DEF JournalInv
  <2>2. IsFiniteSet(J)
    BY <2>1, FS_AddElement
  <2> HIDE DEF J
  <2>3. IsFiniteSet(J \cup {k})
    BY <2>2, FS_AddElement
  <2> QED
    BY <1>1, <2>1, <2>2, <2>3
<1>6. \A x \in J \cup {k} : \A a \in MoneyAccounts : x.entry[a] \in Int
  BY <1>1 DEF JournalInv
<1> HIDE DEF J
<1>7. ASSUME NEW a \in MoneyAccounts
      PROVE  Balance(a)' = Balance(a) + Entry(lines)[a] + Entry(cash)[a]
  <2>1. Balance(a) = BalanceOver(journals, a) /\ Balance(a)' = BalanceOver(J \cup {k}, a)
    BY <1>1 DEF Balance, BalanceOver
  <2>2. BalanceOver(J \cup {k}, a) = BalanceOver(J, a) + k.entry[a]
    BY <1>4, <1>5, <1>6, EntryAdded
  <2>3. BalanceOver(journals \cup {j}, a) = BalanceOver(journals, a) + j.entry[a]
    <3>1. \A x \in journals \cup {j} : x.entry[a] \in Int
      BY <1>6 DEF J
    <3> QED
      BY <1>3, <1>5, <3>1, EntryAdded
  <2> QED
    BY <1>1, <2>1, <2>2, <2>3 DEF J
<1>8. JournalInv'
  <2>1. \A x \in journals' : x.source[1] = "treasury" => x.source[2] \in 1 .. Len(treasury')
    BY <1>1, <1>2 DEF J, JournalInv
  <2> QED
    BY <1>1, <1>5, <1>6, <2>1 DEF JournalInv
<1> QED
  BY <1>7, <1>8

LEMMA IssueInvoiceMoney ==
  ASSUME MoneyInv, NEW i \in InvoiceIds, NEW form \in InvoiceForms,
         NEW o \in InvoiceIds \cup {None}, NEW w \in Warehouses, NEW d \in Dates,
         NEW account \in CashAccounts, IssueInvoice(i, form, o, w, d, account)
  PROVE  MoneyInv'
<1> DEFINE kind == form.kind
           paidAt == form.paid
           grand == Grand(form)
           type == SettledBy(kind)
           control == ControlAccount(kind)
           cash == CashLines(type, account, control, paidAt)
           ref == <<"invoice", i>>
           debit == IF kind \in {"sale", "non_formal", "purchase_return"} THEN grand ELSE -grand
           in == IF type = "receipt" THEN paidAt ELSE -paidAt
<1>1. PICK net, cost :
        /\ Unposted("invoice", i)
        /\ \/ /\ paidAt = 0
              /\ journals' = journals \cup {Posting("invoice", i, d, InvoiceLines(form, net, cost))}
              /\ UNCHANGED treasury
           \/ /\ paidAt > 0
              /\ journals' = journals \cup {Posting("invoice", i, d, InvoiceLines(form, net, cost)),
                                            Posting("treasury", NextTx, d, cash)}
              /\ treasury' = Append(treasury, Transaction(type, account, paidAt, ref, d))
  BY DEF IssueInvoice, WriteInvoice, Record
<1> DEFINE lines == InvoiceLines(form, net, cost)
<1>2. Issues(i, form, o, w, d) /\ UNCHANGED cheques
  BY DEF IssueInvoice, WriteInvoice, Issues
<1>3. /\ InvoiceInv' /\ i \notin Issued
      /\ invoices'[i].kind = kind /\ invoices'[i].grand = grand /\ invoices'[i].paid = paidAt
      /\ \A b \in InvoiceIds \ {i} : invoices'[b] = invoices[b]
  BY <1>2, IssuesKeeps DEF MoneyInv
<1>4. invoices[i].kind = "none" /\ invoices[i].paid = 0
  BY <1>3 DEF Issued, MoneyInv, InvoiceInv, NoInvoice
<1>5. /\ kind \in OriginalKinds \cup ReturnKinds /\ grand \in Nat /\ paidAt \in Nat
      /\ kind \in {"sale", "non_formal", "purchase", "sale_return", "purchase_return"}
      /\ control = IF kind \in {"sale", "non_formal", "sale_return"} THEN "receivable" ELSE "payable"
      /\ type = IF kind \in {"sale", "non_formal", "purchase_return"} THEN "receipt" ELSE "payment"
  BY FormGrand, KindsApart
<1>6. \A a \in MoneyAccounts : Entry(lines)[a] = IF a = control THEN debit ELSE 0
  BY InvoiceEntry
<1>7. ref \in Refs /\ ref # None /\ \A b \in InvoiceIds : ref = <<"invoice", b>> <=> b = i
  BY RetailAssumption DEF Refs
<1>8. control \in {"receivable", "payable"} /\ type \in {"receipt", "payment"}
  BY <1>5
<1>9. \A a \in MoneyAccounts :
        Entry(cash)[a] = IF a = account THEN IF type = "receipt" THEN paidAt ELSE -paidAt
                         ELSE IF a = control THEN IF type = "receipt" THEN -paidAt ELSE paidAt
                         ELSE 0
  BY <1>5, <1>8, CashEntry
<1> HIDE DEF kind, paidAt, grand, type, control, cash, ref, lines
<1>10. /\ Listed /\ JournalInv /\ \A a \in MoneyAccounts : Balance(a) \in Int
       /\ OnAccount("receipt") \in Nat /\ OnAccount("payment") \in Nat
       /\ \A a : Held(a) \in Int /\ \A b : PaidOn(b) \in Nat
  BY Figures DEF MoneyInv
<1>11. debit \in Int /\ in \in Int /\ (paidAt = 0 => in = 0)
  BY <1>5
<1>12. /\ Listed' /\ JournalInv'
       /\ \A a \in CashAccounts : /\ Balance(a)' = Balance(a) + IF a = account THEN in ELSE 0
                                  /\ Held(a)' = Held(a) + IF a = account THEN in ELSE 0
       /\ \A a \in {"receivable", "payable", "chequeIn", "chequeOut"} :
            Balance(a)' = Balance(a) + IF a = control THEN debit - in ELSE 0
       /\ \A b \in InvoiceIds : PaidOn(b)' = PaidOn(b) + IF b = i THEN paidAt ELSE 0
       /\ OnAccount("receipt")' = OnAccount("receipt")
       /\ OnAccount("payment")' = OnAccount("payment")
  <2>1. CASE /\ paidAt = 0
             /\ journals' = journals \cup {Posting("invoice", i, d, lines)}
             /\ UNCHANGED treasury
    <3>1. /\ Listed' /\ Len(treasury) \in Nat /\ Len(treasury') \in Nat
          /\ Len(treasury) <= Len(treasury')
      BY <1>10, <2>1 DEF Listed
    <3>2. \A a \in MoneyAccounts : Entry(lines)[a] \in Int
      BY <1>6, <1>11
    <3>3. /\ JournalInv'
          /\ \A a \in MoneyAccounts : Balance(a)' = Balance(a) + Entry(lines)[a]
      BY <1>1, <1>10, <2>1, <3>1, <3>2, Posted
    <3>4. /\ \A b : PaidOn(b)' = PaidOn(b)
          /\ OnAccount("receipt")' = OnAccount("receipt")
          /\ OnAccount("payment")' = OnAccount("payment")
          /\ \A a : Held(a)' = Held(a)
      BY <2>1, CashKept
    <3>5. in = 0
      BY <1>11, <2>1
    <3> HIDE DEF debit, in
    <3>6. \A a \in CashAccounts : /\ Balance(a)' = Balance(a) + IF a = account THEN in ELSE 0
                                  /\ Held(a)' = Held(a) + IF a = account THEN in ELSE 0
      BY <1>6, <1>8, <1>10, <3>3, <3>4, <3>5, MoneyNames
    <3>7. \A a \in {"receivable", "payable", "chequeIn", "chequeOut"} :
            Balance(a)' = Balance(a) + IF a = control THEN debit - in ELSE 0
      BY <1>6, <1>10, <1>11, <3>3, <3>5, MoneyNames
    <3>8. \A b \in InvoiceIds : PaidOn(b)' = PaidOn(b) + IF b = i THEN paidAt ELSE 0
      BY <1>10, <2>1, <3>4
    <3> QED
      BY <3>1, <3>3, <3>4, <3>6, <3>7, <3>8
  <2>2. CASE /\ paidAt > 0
             /\ journals' = journals \cup {Posting("invoice", i, d, lines),
                                           Posting("treasury", NextTx, d, cash)}
             /\ treasury' = Append(treasury, Transaction(type, account, paidAt, ref, d))
    <3>1. /\ Listed' /\ Len(treasury) \in Nat /\ Len(treasury') = Len(treasury) + 1
          /\ \A b : PaidOn(b)' = PaidOn(b) + IF ref = <<"invoice", b>> THEN paidAt ELSE 0
          /\ OnAccount("receipt")' = OnAccount("receipt") + IF type = "receipt" /\ ref = None THEN paidAt ELSE 0
          /\ OnAccount("payment")' = OnAccount("payment") + IF type = "payment" /\ ref = None THEN paidAt ELSE 0
          /\ \A a \in CashAccounts : a # account => Held(a)' = Held(a)
          /\ Held(account)' = Held(account) + IF type = "receipt" THEN paidAt ELSE -paidAt
      BY <1>5, <1>7, <1>8, <1>10, <2>2, CashMoved
    <3>2. \A a \in MoneyAccounts : Entry(lines)[a] \in Int /\ Entry(cash)[a] \in Int
      BY <1>5, <1>6, <1>9, <1>11
    <3>3. /\ JournalInv'
          /\ \A a \in MoneyAccounts : Balance(a)' = Balance(a) + Entry(lines)[a] + Entry(cash)[a]
      <4>1. Listed /\ JournalInv /\ Unposted("invoice", i) /\ Len(treasury') = Len(treasury) + 1
        BY <1>1, <1>10, <3>1
      <4>2. journals' = journals \cup {Posting("invoice", i, d, lines),
                                       Posting("treasury", NextTx, d, cash)}
        BY <2>2
      <4> HIDE DEF debit, in
      <4> QED
        BY <3>2, <4>1, <4>2, BothPosted
    <3>4. \A a \in MoneyAccounts :
            Entry(cash)[a] = IF a = account THEN in ELSE IF a = control THEN -in ELSE 0
      BY <1>5, <1>9
    <3> HIDE DEF debit
    <3>5. \A a \in CashAccounts : Held(a)' = Held(a) + IF a = account THEN in ELSE 0
      BY <1>10, <3>1
    <3> HIDE DEF in
    <3>6. \A a \in CashAccounts : Balance(a)' = Balance(a) + IF a = account THEN in ELSE 0
      BY <1>6, <1>8, <1>10, <1>11, <3>3, <3>4, MoneyNames
    <3>7. \A a \in {"receivable", "payable", "chequeIn", "chequeOut"} :
            Balance(a)' = Balance(a) + IF a = control THEN debit - in ELSE 0
      BY <1>6, <1>8, <1>10, <1>11, <3>3, <3>4, MoneyNames
    <3>8. \A b \in InvoiceIds : PaidOn(b)' = PaidOn(b) + IF b = i THEN paidAt ELSE 0
      BY <1>7, <3>1
    <3>9. /\ OnAccount("receipt")' = OnAccount("receipt")
          /\ OnAccount("payment")' = OnAccount("payment")
      BY <1>7, <1>10, <3>1
    <3> QED
      BY <3>1, <3>3, <3>5, <3>6, <3>7, <3>8, <3>9
  <2> QED
    BY <1>1, <2>1, <2>2 DEF lines
<1>13. \A kinds : "none" \notin kinds =>
         Due(kinds)' = Due(kinds) + IF kind \in kinds THEN grand - paidAt ELSE 0
  <2> SUFFICES ASSUME NEW kinds, "none" \notin kinds
               PROVE  Due(kinds)' = Due(kinds) + IF kind \in kinds THEN grand - paidAt ELSE 0
    OBVIOUS
  <2>1. /\ Due(kinds) \in Int
        /\ Due(kinds)' = Due(kinds) - Unpaid(invoices[i], kinds) + Unpaid(invoices'[i], kinds)
    BY <1>3, DueChanged DEF MoneyInv
  <2>2. Unpaid(invoices[i], kinds) = 0
    BY <1>4 DEF Unpaid
  <2>3. Unpaid(invoices'[i], kinds) = IF kind \in kinds THEN grand - paidAt ELSE 0
    BY <1>3 DEF Unpaid
  <2> QED
    BY <1>5, <2>1, <2>2, <2>3
<1>14. ChequesInv' /\ \A direction, statuses :
         SumCheques(direction, statuses)' = SumCheques(direction, statuses)
  BY <1>2, FacesKept DEF MoneyInv
<1>15. Reckoned'
  <2>1. Reckoned
    BY DEF MoneyInv
  <2>2. /\ Due({"sale", "non_formal"})' = Due({"sale", "non_formal"})
             + IF kind \in {"sale", "non_formal"} THEN grand - paidAt ELSE 0
        /\ Due({"sale_return"})' = Due({"sale_return"}) + IF kind = "sale_return" THEN grand - paidAt ELSE 0
        /\ Due({"purchase_return"})' = Due({"purchase_return"})
             + IF kind = "purchase_return" THEN grand - paidAt ELSE 0
        /\ Due({"purchase"})' = Due({"purchase"}) + IF kind = "purchase" THEN grand - paidAt ELSE 0
    BY <1>13
  <2>3. /\ \A a \in MoneyAccounts : Balance(a) \in Int
        /\ Due({"sale", "non_formal"}) \in Int /\ Due({"sale_return"}) \in Int
        /\ Due({"purchase_return"}) \in Int /\ Due({"purchase"}) \in Int
        /\ SumCheques("inbound", {"pending", "cleared", "spent"}) \in Nat
        /\ SumCheques("outbound", {"pending", "cleared"}) \in Nat
        /\ SumCheques("inbound", {"spent"}) \in Nat
        /\ OnAccount("receipt") \in Nat /\ OnAccount("payment") \in Nat
        /\ \A a : Held(a) \in Int
        /\ \A b : PaidOn(b) \in Nat
    BY Figures DEF MoneyInv
  <2>5. /\ Balance("receivable")' = Balance("receivable") + IF control = "receivable" THEN debit - in ELSE 0
        /\ Balance("payable")' = Balance("payable") + IF control = "payable" THEN debit - in ELSE 0
        /\ Balance("chequeIn")' = Balance("chequeIn")
        /\ Balance("chequeOut")' = Balance("chequeOut")
    <3> HIDE DEF debit, in
    <3> QED
      BY <1>8, <1>11, <1>12, <2>3, MoneyNames
  <2>6. \A a \in CashAccounts : Balance(a)' = Held(a)'
    <3> HIDE DEF debit, in
    <3>1. \A a \in CashAccounts : Balance(a) = Held(a)
      BY <2>1 DEF Reckoned
    <3> QED
      BY <1>12, <3>1
  <2>7. \A b \in InvoiceIds : invoices'[b].paid = PaidOn(b)'
    <3>1. \A b \in InvoiceIds : invoices[b].paid = PaidOn(b)
      BY <2>1 DEF Reckoned
    <3>2. ASSUME NEW b \in InvoiceIds, b # i PROVE invoices'[b].paid = PaidOn(b)'
      BY <1>3, <1>12, <2>3, <3>1, <3>2
    <3>3. invoices'[i].paid = PaidOn(i)'
      BY <1>3, <1>4, <1>5, <1>12, <3>1
    <3> QED
      BY <3>2, <3>3
  <2>8. /\ Balance("receivable")' =
             Due({"sale", "non_formal"})' - Due({"sale_return"})' - OnAccount("receipt")'
             - SumCheques("inbound", {"pending", "cleared", "spent"})'
        /\ Balance("payable")' =
             Due({"purchase_return"})' - Due({"purchase"})' + OnAccount("payment")'
             + SumCheques("outbound", {"pending", "cleared"})' + SumCheques("inbound", {"spent"})'
    <3>1. /\ Balance("receivable") =
                Due({"sale", "non_formal"}) - Due({"sale_return"}) - OnAccount("receipt")
                - SumCheques("inbound", {"pending", "cleared", "spent"})
          /\ Balance("payable") =
                Due({"purchase_return"}) - Due({"purchase"}) + OnAccount("payment")
                + SumCheques("outbound", {"pending", "cleared"}) + SumCheques("inbound", {"spent"})
      BY <2>1 DEF Reckoned
    <3>2. /\ SumCheques("inbound", {"pending", "cleared", "spent"})'
                = SumCheques("inbound", {"pending", "cleared", "spent"})
          /\ SumCheques("outbound", {"pending", "cleared"})' = SumCheques("outbound", {"pending", "cleared"})
          /\ SumCheques("inbound", {"spent"})' = SumCheques("inbound", {"spent"})
          /\ OnAccount("receipt")' = OnAccount("receipt")
          /\ OnAccount("payment")' = OnAccount("payment")
      BY <1>12, <1>14
    <3>3. CASE kind \in {"sale", "non_formal"}
      BY <1>5, <2>2, <2>3, <2>5, <3>1, <3>2, <3>3
    <3>4. CASE kind = "sale_return"
      BY <1>5, <2>2, <2>3, <2>5, <3>1, <3>2, <3>4
    <3>5. CASE kind = "purchase"
      BY <1>5, <2>2, <2>3, <2>5, <3>1, <3>2, <3>5
    <3>6. CASE kind = "purchase_return"
      BY <1>5, <2>2, <2>3, <2>5, <3>1, <3>2, <3>6
    <3> QED
      BY <1>5, <3>3, <3>4, <3>5, <3>6
  <2> QED
    BY <1>14, <2>1, <2>5, <2>6, <2>7, <2>8 DEF Reckoned
<1> QED
  BY <1>3, <1>12, <1>14, <1>15 DEF MoneyInv

LEMMA NothingYet ==
  ASSUME Init
  PROVE  /\ \A a : Balance(a) = 0 /\ Into(a) = 0 /\ OutOf(a) = 0
         /\ \A kinds : "none" \notin kinds => Due(kinds) = 0
         /\ \A direction, statuses : "absent" \notin statuses => SumCheques(direction, statuses) = 0
         /\ \A type : OnAccount(type) = 0
         /\ \A i : PaidOn(i) = 0
<1>1. ASSUME NEW a PROVE Balance(a) = 0
  <2> DEFINE f == [j \in journals |-> j.entry[a]]
  <2>1. DOMAIN f = {} /\ Balance(a) = SumFunction(f)
    BY DEF Init, Balance
  <2> QED
    BY <2>1, SumNothing
<1>2. ASSUME NEW kinds, "none" \notin kinds PROVE Due(kinds) = 0
  <2> DEFINE K == {x \in InvoiceIds : invoices[x].kind \in kinds}
             f == [x \in K |-> invoices[x].grand - invoices[x].paid]
  <2>1. \A x \in InvoiceIds : invoices[x].kind = "none"
    BY DEF Init, NoInvoice
  <2>2. K = {}
    BY <1>2, <2>1
  <2>3. DOMAIN f = {} /\ Due(kinds) = SumFunction(f)
    BY <2>2 DEF Due
  <2> QED
    BY <2>3, SumNothing
<1>3. ASSUME NEW direction, NEW statuses, "absent" \notin statuses
      PROVE  SumCheques(direction, statuses) = 0
  <2> DEFINE K == {c \in ChequeIds : cheques[c].direction = direction /\ cheques[c].status \in statuses}
             f == [x \in K |-> cheques[x].amount]
  <2>1. \A x \in ChequeIds : cheques[x].status = "absent"
    BY DEF Init, NoCheque
  <2>2. K = {}
    BY <1>3, <2>1
  <2>3. DOMAIN f = {} /\ SumCheques(direction, statuses) = SumFunction(f)
    BY <2>2 DEF SumCheques
  <2> QED
    BY <2>3, SumNothing
<1>4. ASSUME NEW K \in SUBSET DOMAIN treasury PROVE SumFunction(AmountsOf(K)) = 0
  <2>1. DOMAIN AmountsOf(K) = {}
    BY DEF Init, AmountsOf
  <2> QED
    BY <2>1, SumNothing
<1>5. ASSUME NEW type PROVE OnAccount(type) = 0
  <2> DEFINE K == {k \in DOMAIN treasury : treasury[k].type = type /\ treasury[k].ref = None}
  <2>1. OnAccount(type) = SumFunction(AmountsOf(K)) /\ K \in SUBSET DOMAIN treasury
    BY DEF OnAccount, SumTreasury, AmountsOf
  <2> HIDE DEF K
  <2> QED
    BY <1>4, <2>1
<1>6. ASSUME NEW a PROVE Into(a) = 0
  <2> DEFINE K == {k \in DOMAIN treasury : treasury[k].to = a}
  <2>1. Into(a) = SumFunction(AmountsOf(K)) /\ K \in SUBSET DOMAIN treasury
    BY DEF Into, SumTreasury, AmountsOf
  <2> HIDE DEF K
  <2> QED
    BY <1>4, <2>1
<1>7. ASSUME NEW a PROVE OutOf(a) = 0
  <2> DEFINE K == {k \in DOMAIN treasury : treasury[k].from = a}
  <2>1. OutOf(a) = SumFunction(AmountsOf(K)) /\ K \in SUBSET DOMAIN treasury
    BY DEF OutOf, SumTreasury, AmountsOf
  <2> HIDE DEF K
  <2> QED
    BY <1>4, <2>1
<1>8. ASSUME NEW i PROVE PaidOn(i) = 0
  <2> DEFINE K == {k \in DOMAIN treasury : treasury[k].ref = <<"invoice", i>>}
  <2>1. PaidOn(i) = SumFunction(AmountsOf(K)) /\ K \in SUBSET DOMAIN treasury
    BY DEF PaidOn, SumTreasury, AmountsOf
  <2> HIDE DEF K
  <2> QED
    BY <1>4, <2>1
<1> QED
  BY <1>1, <1>2, <1>3, <1>5, <1>6, <1>7, <1>8

LEMMA MoneyInvHolds == Spec => []MoneyInv
<1>1. Init /\ InvoiceInv => MoneyInv
  <2> SUFFICES ASSUME Init, InvoiceInv PROVE MoneyInv
    OBVIOUS
  <2>1. Listed /\ JournalInv
    BY FS_EmptySet DEF Init, Listed, JournalInv
  <2>2. ChequesInv
    <3>1. cheques \in [ChequeIds -> ChequeRow] /\ \A c \in ChequeIds : cheques[c].status = "absent"
      BY DEF Init, NoCheque, ChequeRow
    <3>2. Drawn = {}
      BY <3>1 DEF Drawn
    <3> QED
      BY <3>1, <3>2, FS_EmptySet DEF ChequesInv
  <2>3. \A i \in InvoiceIds : invoices[i].paid = 0
    BY DEF Init, NoInvoice
  <2>4. Reckoned
    <3>1. \A a : Balance(a) = 0 /\ Held(a) = 0
      BY NothingYet DEF Held
    <3>2. /\ Due({"sale", "non_formal"}) = 0 /\ Due({"sale_return"}) = 0
          /\ Due({"purchase_return"}) = 0 /\ Due({"purchase"}) = 0
          /\ SumCheques("inbound", {"pending", "cleared", "spent"}) = 0
          /\ SumCheques("outbound", {"pending", "cleared"}) = 0
          /\ SumCheques("inbound", {"spent"}) = 0
          /\ SumCheques("inbound", {"pending"}) = 0
          /\ SumCheques("outbound", {"pending"}) = 0
          /\ OnAccount("receipt") = 0 /\ OnAccount("payment") = 0
          /\ \A i : PaidOn(i) = 0
      BY NothingYet
    <3> QED
      BY <2>3, <3>1, <3>2 DEF Reckoned
  <2> QED
    BY <2>1, <2>2, <2>4 DEF MoneyInv
<1>2. MoneyInv /\ [Next]_vars => MoneyInv'
  <2> SUFFICES ASSUME MoneyInv, [Next]_vars PROVE MoneyInv'
    OBVIOUS
  <2>1. ASSUME UNCHANGED <<journals, invoices, treasury, cheques>> PROVE MoneyInv'
    <3>1. /\ InvoiceInv' /\ \A kinds : Due(kinds)' = Due(kinds)
      BY <2>1, InvoicesKept DEF MoneyInv
    <3>2. /\ ChequesInv'
          /\ \A direction, statuses : SumCheques(direction, statuses)' = SumCheques(direction, statuses)
      BY <2>1, FacesKept DEF MoneyInv
    <3>3. /\ Listed'
          /\ \A i : PaidOn(i)' = PaidOn(i)
          /\ OnAccount("receipt")' = OnAccount("receipt")
          /\ OnAccount("payment")' = OnAccount("payment")
          /\ \A a : Held(a)' = Held(a)
      BY <2>1, CashKept DEF MoneyInv
    <3>4. JournalInv' /\ \A a : Balance(a)' = Balance(a)
      BY <2>1 DEF MoneyInv, JournalInv, Balance
    <3>5. Reckoned'
      BY <2>1, <3>1, <3>2, <3>3, <3>4 DEF MoneyInv, Reckoned
    <3> QED
      BY <3>1, <3>2, <3>3, <3>4, <3>5 DEF MoneyInv
  <2>2. ASSUME NEW d \in Dates, NEW i \in InvoiceIds, NEW form \in InvoiceForms,
               NEW o \in InvoiceIds \cup {None}, NEW w \in Warehouses,
               NEW account \in CashAccounts, IssueInvoice(i, form, o, w, d, account)
        PROVE  MoneyInv'
    BY <2>2, IssueInvoiceMoney
  <2>3. ASSUME NEW d \in Dates, PostTransaction(d) PROVE MoneyInv'
    BY <2>3, SettleMoney, OnAccountMoney, TransferMoney DEF PostTransaction
  <2>4. ASSUME NEW d \in Dates, NEW e \in ExpenseIds, NEW income \in BOOLEAN,
               NEW account \in CashAccounts, NEW n \in CashAmounts,
               PostExpense(e, income, account, n, d)
        PROVE  MoneyInv'
    BY <2>4, ExpenseMoves
  <2>5. ASSUME NEW d \in Dates, NEW c \in ChequeIds, NEW direction \in {"inbound", "outbound"},
               NEW n \in CashAmounts, PostCheque(c, direction, n, d)
        PROVE  MoneyInv'
    BY <2>5, PostChequeMoney
  <2>6. ASSUME NEW d \in Dates, NEW c \in ChequeIds,
               NEW status \in {"cleared", "bounced", "returned", "spent"},
               NEW account \in CashAccounts, ChangeChequeStatus(c, status, account, d)
        PROVE  MoneyInv'
    BY <2>6, StatusMoney
  <2>7. ASSUME NEW d \in Dates, NEW t \in TransferIds, NEW from \in Warehouses, NEW to \in Warehouses,
               NEW p \in Products, NEW units \in Quantities, TransferStock(t, from, to, p, units, d)
        PROVE  MoneyInv'
    BY <2>1, <2>7 DEF TransferStock, money
  <2>8. ASSUME NEW d \in Dates, NEW s \in StocktakeIds, NEW w \in Warehouses, NewStocktake(s, w, d)
        PROVE  MoneyInv'
    BY <2>1, <2>8 DEF NewStocktake, money
  <2>9. ASSUME NEW s \in StocktakeIds, NEW p \in Products, NEW units \in Quantities,
               NEW unitCost \in UnitCosts \cup {Null}, CountStocktake(s, p, units, unitCost)
        PROVE  MoneyInv'
    BY <2>1, <2>9 DEF CountStocktake, money
  <2>10. ASSUME NEW s \in StocktakeIds, FinalizeStocktake(s) PROVE MoneyInv'
    BY <2>10, StocktakeMoney
  <2>11. ASSUME NEW p \in Periods, ClosePeriod(p) PROVE MoneyInv'
    BY <2>1, <2>11 DEF ClosePeriod, money
  <2>12. CASE UNCHANGED vars
    BY <2>1, <2>12 DEF vars
  <2> QED
    BY <2>2, <2>3, <2>4, <2>5, <2>6, <2>7, <2>8, <2>9, <2>10, <2>11, <2>12 DEF Next
<1> QED
  BY <1>1, <1>2, InvoiceInvHolds, PTL DEF Spec

(* MoneyAgrees: in every order of invoices, returns, receipts, refunds,    *)
(* expenses, transfers and cheque events, of any number, the control and   *)
(* cash accounts of the ledger say what the documents, the cheques and the *)
(* treasury list say, and an invoice is paid by what settled it.           *)
THEOREM MoneyAgreesCorrect == Spec => []MoneyAgrees
<1>1. MoneyInv => MoneyAgrees
  <2> SUFFICES ASSUME MoneyInv PROVE MoneyAgrees
    OBVIOUS
  <2>1. ControlAccountsAgree
    BY DEF MoneyInv, Reckoned, ControlAccountsAgree, OnAccount
  <2>2. CashBookAgrees
    BY DEF MoneyInv, Reckoned, CashBookAgrees, Held, Into, OutOf
  <2>3. SettlementsAgree
    BY DEF MoneyInv, Reckoned, InvoiceInv, SettlementsAgree, PaidOn
  <2> QED
    BY <2>1, <2>2, <2>3 DEF MoneyAgrees
<1> QED
  BY <1>1, MoneyInvHolds, PTL

-----------------------------------------------------------------------------
(* The loop over the lines of an invoice.                                  *)

\* b[k] is what the first k lines have booked.
BookedUpTo(form, o, w, b, n) ==
  b = [k \in 0 .. n |-> IF k = 0 THEN [ok |-> TRUE, balance |-> stock[w], moves |-> <<>>]
                                 ELSE BookLine(form, o, w, b[k - 1], k)]

LEMMA BookUnfolds ==
  ASSUME NEW form, NEW o, NEW w, Len(form.items) \in Nat
  PROVE  \E b : /\ BookItems(form, o, w) = b[Len(form.items)]
                /\ b[0] = [ok |-> TRUE, balance |-> stock[w], moves |-> <<>>]
                /\ \A k \in 1 .. Len(form.items) : b[k] = BookLine(form, o, w, b[k - 1], k)
<1> DEFINE n == Len(form.items)
           start == [ok |-> TRUE, balance |-> stock[w], moves |-> <<>>]
           G == {m \in 0 .. n : \E b : BookedUpTo(form, o, w, b, m)}
<1>1. 0 \in G
  <2> DEFINE b == [k \in 0 .. 0 |-> start]
  <2>1. b = [k \in 0 .. 0 |-> IF k = 0 THEN start ELSE BookLine(form, o, w, b[k - 1], k)]
    OBVIOUS
  <2>2. BookedUpTo(form, o, w, b, 0)
    BY <2>1 DEF BookedUpTo
  <2> QED
    BY <2>2
<1>2. ASSUME NEW m \in 1 .. n, m - 1 \in G
      PROVE  m \in G
  <2>1. PICK a : BookedUpTo(form, o, w, a, m - 1)
    BY <1>2
  <2> DEFINE b == [k \in 0 .. m |-> IF k = m THEN BookLine(form, o, w, a[m - 1], m) ELSE a[k]]
  <2>2. \A k \in 0 .. m : k # m => k \in 0 .. m - 1
    OBVIOUS
  <2>3. \A k \in 0 .. m - 1 :
          a[k] = IF k = 0 THEN start ELSE BookLine(form, o, w, a[k - 1], k)
    BY <2>1 DEF BookedUpTo
  <2>4. ASSUME NEW k \in 0 .. m
        PROVE  b[k] = IF k = 0 THEN start ELSE BookLine(form, o, w, b[k - 1], k)
    <3>1. CASE k = 0
      <4>1. k # m /\ k \in 0 .. m - 1
        BY <3>1
      <4>2. b[k] = a[k]
        BY <4>1
      <4> QED
        BY <2>3, <3>1, <4>1, <4>2
    <3>2. CASE k = m
      <4>1. b[k] = BookLine(form, o, w, a[m - 1], m) /\ k # 0 /\ m - 1 \in 0 .. m /\ m - 1 # m
        BY <3>2
      <4>2. b[k - 1] = a[m - 1]
        BY <3>2, <4>1
      <4> QED
        BY <3>2, <4>1, <4>2
    <3>3. CASE k # 0 /\ k # m
      <4>1. k \in 0 .. m - 1 /\ k - 1 \in 0 .. m /\ k - 1 # m
        BY <3>3
      <4>2. b[k] = a[k] /\ b[k - 1] = a[k - 1]
        BY <3>3, <4>1
      <4> QED
        BY <2>3, <3>3, <4>1, <4>2
    <3> QED
      BY <3>1, <3>2, <3>3
  <2>5. b = [k \in 0 .. m |-> b[k]]
    OBVIOUS
  <2> HIDE DEF b
  <2>6. BookedUpTo(form, o, w, b, m)
    BY <2>4, <2>5 DEF BookedUpTo
  <2> QED
    BY <2>6
<1>3. n \in Nat
  OBVIOUS
<1> HIDE DEF G
<1>4. n \in G
  <2>1. \A k \in 0 .. n : k \in G
    BY <1>1, <1>2, <1>3, UpTo
  <2> QED
    BY <1>3, <2>1
<1> DEFINE b == CHOOSE b : BookedUpTo(form, o, w, b, n)
<1>5. \E c : BookedUpTo(form, o, w, c, n)
  BY <1>4 DEF G
<1>6. BookedUpTo(form, o, w, b, n)
  BY <1>5
<1>7. BookItems(form, o, w) = b[n]
  BY DEF BookItems, BookedUpTo
<1> HIDE DEF b
<1>8. b[0] = start /\ \A k \in 1 .. n : b[k] = BookLine(form, o, w, b[k - 1], k)
  <2>1. 0 \in 0 .. n /\ \A k \in 1 .. n : k \in 0 .. n /\ k # 0
    BY <1>3
  <2>2. b[0] = start
    BY <1>6, <2>1 DEF BookedUpTo
  <2>3. ASSUME NEW k \in 1 .. n PROVE b[k] = BookLine(form, o, w, b[k - 1], k)
    <3>1. k \in 0 .. n /\ k # 0
      BY <2>1
    <3> QED
      BY <1>6, <3>1 DEF BookedUpTo
  <2> QED
    BY <2>2, <2>3
<1> QED
  BY <1>7, <1>8

\* What is known of the lines of an accepted form.
LEMMA FormItems ==
  ASSUME NEW form \in InvoiceForms
  PROVE  /\ Len(form.items) \in Nat /\ DOMAIN form.items = 1 .. Len(form.items)
         /\ form.discount \in Nat
         /\ \A k \in DOMAIN form.items :
              /\ form.items[k].item \in Products \cup Services
              /\ form.items[k].units \in Nat \ {0} /\ form.items[k].total \in Nat
<1> DEFINE R == [item: Products \cup Services, units: Nat, total: Nat]
<1>1. form \in Form /\ \A k \in DOMAIN form.items : form.items[k].units > 0
  BY RetailAssumption
<1>2. form.items \in Seq(R) /\ form.discount \in Nat
  BY <1>1 DEF Form
<1>3. \A x \in R : x.item \in Products \cup Services /\ x.units \in Nat /\ x.total \in Nat
  OBVIOUS
<1> HIDE DEF R
<1>4. \A k \in DOMAIN form.items : form.items[k] \in R
  BY <1>2
<1> QED
  BY <1>1, <1>2, <1>3, <1>4

\* What an invoice counts of item p in its first k lines, and what its goods come to.
UnitsUpTo(items, p, k) ==
  SumFunction([m \in {m \in 1 .. k : items[m].item = p} |-> items[m].units])

NetUpTo(net, items, k) ==
  SumFunction([m \in {m \in 1 .. k : items[m].item \notin Services} |-> net[m]])

LEMMA LineCounted ==
  ASSUME NEW form \in InvoiceForms, NEW p, NEW k \in 1 .. Len(form.items)
  PROVE  /\ UnitsUpTo(form.items, p, k) =
              UnitsUpTo(form.items, p, k - 1)
              + IF form.items[k].item = p THEN form.items[k].units ELSE 0
         /\ UnitsUpTo(form.items, p, k - 1) \in Int
<1> DEFINE items == form.items
           K == {m \in 1 .. k - 1 : items[m].item = p}
           L == {m \in 1 .. k : items[m].item = p}
           f == [m \in K |-> items[m].units]
           g == [m \in L |-> items[m].units]
<1>1. /\ \A m \in 1 .. k : items[m].units \in Int
      /\ 1 .. k = (1 .. k - 1) \cup {k} /\ k \notin 1 .. k - 1
  <2>1. 1 .. k \subseteq DOMAIN items /\ k \in Nat \ {0}
    BY FormItems
  <2>2. \A m \in 1 .. k : items[m].units \in Int
    BY <2>1, FormItems
  <2> QED
    BY <2>1, <2>2
<1>2. IsFiniteSet(K)
  <2>1. IsFiniteSet(1 .. k - 1)
    BY FS_Interval
  <2> QED
    BY <2>1, FS_Subset
<1>3. L = IF items[k].item = p THEN K \cup {k} ELSE K
  BY <1>1
<1>4. /\ DOMAIN f = K /\ DOMAIN g = L /\ k \notin K
      /\ \A m \in K : m \in 1 .. k /\ f[m] = items[m].units
      /\ \A m \in L : m \in 1 .. k /\ g[m] = items[m].units
  BY <1>1
<1>5. UnitsUpTo(items, p, k - 1) = SumFunction(f) /\ UnitsUpTo(items, p, k) = SumFunction(g)
  BY DEF UnitsUpTo
<1>6. ValueAt(g, k) = IF items[k].item = p THEN items[k].units ELSE 0
  BY <1>3, <1>4 DEF ValueAt
<1> HIDE DEF f, g, K, L
<1>7. /\ IsFiniteSet(DOMAIN f) /\ k \notin DOMAIN f
      /\ DOMAIN g = DOMAIN f \/ DOMAIN g = DOMAIN f \cup {k}
      /\ \A y \in DOMAIN f : f[y] \in Int /\ g[y] = f[y]
      /\ k \in DOMAIN g => g[k] \in Int
  BY <1>1, <1>2, <1>3, <1>4
<1>8. SumFunction(g) = SumFunction(f) + ValueAt(g, k) /\ SumFunction(f) \in Int
  BY <1>7, SumGrown
<1> QED
  BY <1>5, <1>6, <1>8

LEMMA LineNetted ==
  ASSUME NEW form \in InvoiceForms, NEW net, NEW k \in 1 .. Len(form.items),
         \A m \in 1 .. Len(form.items) : net[m] \in Int
  PROVE  /\ NetUpTo(net, form.items, k) =
              NetUpTo(net, form.items, k - 1)
              + IF form.items[k].item \in Services THEN 0 ELSE net[k]
         /\ NetUpTo(net, form.items, k - 1) \in Int
<1> DEFINE items == form.items
           K == {m \in 1 .. k - 1 : items[m].item \notin Services}
           L == {m \in 1 .. k : items[m].item \notin Services}
           f == [m \in K |-> net[m]]
           g == [m \in L |-> net[m]]
<1>1. /\ \A m \in 1 .. k : net[m] \in Int
      /\ 1 .. k = (1 .. k - 1) \cup {k} /\ k \notin 1 .. k - 1
  <2>1. 1 .. k \subseteq 1 .. Len(items) /\ k \in Nat \ {0}
    BY FormItems
  <2> QED
    BY <2>1
<1>2. IsFiniteSet(K)
  <2>1. IsFiniteSet(1 .. k - 1)
    BY FS_Interval
  <2> QED
    BY <2>1, FS_Subset
<1>3. L = IF items[k].item \in Services THEN K ELSE K \cup {k}
  BY <1>1
<1>4. /\ DOMAIN f = K /\ DOMAIN g = L /\ k \notin K
      /\ \A m \in K : m \in 1 .. k /\ f[m] = net[m]
      /\ \A m \in L : m \in 1 .. k /\ g[m] = net[m]
  BY <1>1
<1>5. NetUpTo(net, items, k - 1) = SumFunction(f) /\ NetUpTo(net, items, k) = SumFunction(g)
  BY DEF NetUpTo
<1>6. ValueAt(g, k) = IF items[k].item \in Services THEN 0 ELSE net[k]
  BY <1>3, <1>4 DEF ValueAt
<1> HIDE DEF f, g, K, L
<1>7. /\ IsFiniteSet(DOMAIN f) /\ k \notin DOMAIN f
      /\ DOMAIN g = DOMAIN f \/ DOMAIN g = DOMAIN f \cup {k}
      /\ \A y \in DOMAIN f : f[y] \in Int /\ g[y] = f[y]
      /\ k \in DOMAIN g => g[k] \in Int
  BY <1>1, <1>2, <1>3, <1>4
<1>8. SumFunction(g) = SumFunction(f) + ValueAt(g, k) /\ SumFunction(f) \in Int
  BY <1>7, SumGrown
<1> QED
  BY <1>5, <1>6, <1>8

LEMMA NothingCounted ==
  ASSUME NEW items, NEW net
  PROVE  NetUpTo(net, items, 0) = 0 /\ \A p : UnitsUpTo(items, p, 0) = 0
<1>1. NetUpTo(net, items, 0) = 0
  <2> DEFINE K == {m \in 1 .. 0 : items[m].item \notin Services}
             f == [m \in K |-> net[m]]
  <2>1. DOMAIN f = {} /\ NetUpTo(net, items, 0) = SumFunction(f)
    BY DEF NetUpTo
  <2> QED
    BY <2>1, SumNothing
<1>2. ASSUME NEW p PROVE UnitsUpTo(items, p, 0) = 0
  <2> DEFINE K == {m \in 1 .. 0 : items[m].item = p}
             f == [m \in K |-> items[m].units]
  <2>1. DOMAIN f = {} /\ UnitsUpTo(items, p, 0) = SumFunction(f)
    BY DEF UnitsUpTo
  <2> QED
    BY <2>1, SumNothing
<1> QED
  BY <1>1, <1>2

\* The lines come to whole rials each once the discount is shared.
LEMMA NetsAreInts ==
  ASSUME NEW form \in InvoiceForms
  PROVE  /\ DOMAIN NetTotals(form) = DOMAIN form.items
         /\ \A k \in DOMAIN form.items : NetTotals(form)[k] \in Int
<1> DEFINE t == Totals(form.items)
           d == form.discount
           total == SumFunction(t)
<1>1. /\ DOMAIN t = DOMAIN form.items /\ IsFiniteSet(DOMAIN t) /\ d \in Nat
      /\ \A k \in DOMAIN t : t[k] \in Nat
  BY FormItems, FS_Interval DEF Totals
<1> HIDE DEF t, d
<1>2. total \in Nat
  BY <1>1, SumNat
<1>3. NetTotals(form) = AllocateDiscount(t, d)
  BY DEF NetTotals, t, d
<1> HIDE DEF total
<1>4. CASE total = 0
  <2>1. AllocateDiscount(t, d) = [k \in DOMAIN t |-> 0]
    BY <1>4 DEF AllocateDiscount, total
  <2> QED
    BY <1>1, <1>3, <2>1
<1>5. CASE total # 0
  <2> DEFINE reduced == [k \in DOMAIN t |-> (t[k] * d) \div total]
             rem == [k \in DOMAIN t |-> (t[k] * d) % total]
             remaining == d - SumFunction(reduced)
             ahead(k) == {m \in DOMAIN t :
                            /\ reduced[m] < t[m]
                            /\ rem[m] > rem[k] \/ (rem[m] = rem[k] /\ m < k)}
             extra(k) == IF reduced[k] < t[k] /\ Cardinality(ahead(k)) < remaining THEN 1 ELSE 0
  <2>1. AllocateDiscount(t, d) = [k \in DOMAIN t |-> t[k] - reduced[k] - extra(k)]
    BY <1>5 DEF AllocateDiscount, total
  <2>2. ASSUME NEW k \in DOMAIN t PROVE reduced[k] \in Int
    <3>1. t[k] * d \in Int
      BY <1>1
    <3> QED
      BY <1>2, <1>5, <3>1
  <2>3. \A k \in DOMAIN t : extra(k) \in Int
    OBVIOUS
  <2> HIDE DEF reduced, extra
  <2> QED
    BY <1>1, <1>3, <2>1, <2>2, <2>3
<1> QED
  BY <1>4, <1>5

-----------------------------------------------------------------------------
(* What a list of movements comes to.                                      *)

MoveRow == [type: {"in", "out"}, warehouse: Warehouses, product: Products, units: Nat, cost: Nat]

\* A list of movements, dated or not, has whole units and costs.
MoveList(moves) ==
  /\ IsFiniteSet(DOMAIN moves)
  /\ \A k \in DOMAIN moves : moves[k].units \in Nat /\ moves[k].cost \in Nat

TotalCost(moves) == SumFunction([k \in DOMAIN moves |-> moves[k].cost])

LEMMA MoveSums ==
  ASSUME NEW moves, MoveList(moves)
  PROVE  /\ TotalCost(moves) \in Nat
         /\ \A p : MovedUnits(moves, p) \in Nat /\ MovedCost(moves, p) \in Nat
<1>1. \A K \in SUBSET DOMAIN moves : IsFiniteSet(K)
  BY FS_Subset DEF MoveList
<1>2. ASSUME NEW K \in SUBSET DOMAIN moves
      PROVE  /\ SumFunction([k \in K |-> moves[k].units]) \in Nat
             /\ SumFunction([k \in K |-> moves[k].cost]) \in Nat
  <2> DEFINE f == [k \in K |-> moves[k].units]
             g == [k \in K |-> moves[k].cost]
  <2>1. /\ DOMAIN f = K /\ DOMAIN g = K /\ IsFiniteSet(K)
        /\ \A k \in K : f[k] \in Nat /\ g[k] \in Nat
    BY <1>1 DEF MoveList
  <2> HIDE DEF f, g
  <2>2. SumFunction(f) \in Nat /\ SumFunction(g) \in Nat
    BY <2>1, SumNat
  <2> QED
    BY <2>2 DEF f, g
<1>3. \A p : MovesOf(moves, p) \in SUBSET DOMAIN moves
  BY DEF MovesOf
<1>4. TotalCost(moves) \in Nat
  BY <1>2 DEF TotalCost
<1>5. ASSUME NEW p PROVE MovedUnits(moves, p) \in Nat /\ MovedCost(moves, p) \in Nat
  <2> DEFINE K == MovesOf(moves, p)
  <2>1. K \in SUBSET DOMAIN moves
    BY <1>3
  <2> HIDE DEF K
  <2>2. /\ SumFunction([k \in K |-> moves[k].units]) \in Nat
        /\ SumFunction([k \in K |-> moves[k].cost]) \in Nat
    BY <1>2, <2>1
  <2> QED
    BY <2>2 DEF MovedUnits, MovedCost, K
<1> QED
  BY <1>4, <1>5

LEMMA NoMoves ==
  ASSUME NEW moves, DOMAIN moves = {}
  PROVE  TotalCost(moves) = 0 /\ \A p : MovedUnits(moves, p) = 0 /\ MovedCost(moves, p) = 0
<1>1. ASSUME NEW f, DOMAIN f = {} PROVE SumFunction(f) = 0
  BY <1>1, SumNothing
<1>2. TotalCost(moves) = 0
  <2> DEFINE f == [k \in DOMAIN moves |-> moves[k].cost]
  <2>1. DOMAIN f = {} /\ TotalCost(moves) = SumFunction(f)
    BY DEF TotalCost
  <2> QED
    BY <1>1, <2>1
<1>3. ASSUME NEW p PROVE MovedUnits(moves, p) = 0 /\ MovedCost(moves, p) = 0
  <2> DEFINE f == [k \in MovesOf(moves, p) |-> moves[k].cost]
             g == [k \in MovesOf(moves, p) |-> moves[k].units]
  <2>1. MovesOf(moves, p) = {}
    BY DEF MovesOf
  <2>2. /\ DOMAIN f = {} /\ MovedCost(moves, p) = SumFunction(f)
        /\ DOMAIN g = {} /\ MovedUnits(moves, p) = SumFunction(g)
    BY <2>1 DEF MovedUnits, MovedCost
  <2> HIDE DEF f, g
  <2> QED
    BY <1>1, <2>2
<1> QED
  BY <1>2, <1>3

LEMMA RowsAreMoves ==
  ASSUME NEW moves \in Seq(MoveRow)
  PROVE  MoveList(moves) /\ DOMAIN moves = 1 .. Len(moves) /\ Len(moves) \in Nat
<1>1. \A x \in MoveRow : x.units \in Nat /\ x.cost \in Nat
  BY DEF MoveRow
<1>2. DOMAIN moves = 1 .. Len(moves) /\ Len(moves) \in Nat /\ \A k \in DOMAIN moves : moves[k] \in MoveRow
  OBVIOUS
<1> QED
  BY <1>1, <1>2, FS_Interval DEF MoveList

\* What a movement x more comes to.
MovesOnceMore(moves, x, next) ==
  /\ next \in Seq(MoveRow) /\ next # <<>>
  /\ TotalCost(next) = TotalCost(moves) + x.cost
  /\ \A p : /\ MovedUnits(next, p) = MovedUnits(moves, p) + IF x.product = p THEN x.units ELSE 0
            /\ MovedCost(next, p) = MovedCost(moves, p) + IF x.product = p THEN x.cost ELSE 0
  /\ \A k \in DOMAIN next : next[k] = x \/ \E m \in DOMAIN moves : next[k] = moves[m]

LEMMA MoveAppended ==
  ASSUME NEW moves \in Seq(MoveRow), NEW x \in MoveRow
  PROVE  MovesOnceMore(moves, x, Append(moves, x))
<1> DEFINE next == Append(moves, x)
<1> DEFINE n == Len(moves) + 1
<1>1. /\ next \in Seq(MoveRow) /\ DOMAIN next = DOMAIN moves \cup {n} /\ next[n] = x
      /\ n \notin DOMAIN moves /\ \A k \in DOMAIN moves : next[k] = moves[k]
  OBVIOUS
<1>2. MoveList(moves) /\ MoveList(next)
  BY <1>1, RowsAreMoves
<1> HIDE DEF n, next
<1>3. TotalCost(next) = TotalCost(moves) + x.cost
  <2> DEFINE f == [k \in DOMAIN moves |-> moves[k].cost]
             g == [k \in DOMAIN next |-> next[k].cost]
  <2>1. /\ DOMAIN f = DOMAIN moves /\ DOMAIN g = DOMAIN moves \cup {n} /\ g[n] = x.cost
        /\ \A k \in DOMAIN moves : g[k] = f[k] /\ f[k] \in Int
        /\ IsFiniteSet(DOMAIN moves) /\ x.cost \in Int
    BY <1>1, <1>2 DEF MoveList
  <2>2. TotalCost(next) = SumFunction(g) /\ TotalCost(moves) = SumFunction(f)
    BY DEF TotalCost
  <2> HIDE DEF f, g
  <2>3. SumFunction(g) = SumFunction(f) + ValueAt(g, n)
    BY <1>1, <2>1, SumGrown
  <2>4. ValueAt(g, n) = x.cost
    BY <2>1 DEF ValueAt
  <2> QED
    BY <2>2, <2>3, <2>4
<1>4. ASSUME NEW p
      PROVE  /\ MovedUnits(next, p) = MovedUnits(moves, p) + IF x.product = p THEN x.units ELSE 0
             /\ MovedCost(next, p) = MovedCost(moves, p) + IF x.product = p THEN x.cost ELSE 0
  <2> DEFINE K == MovesOf(moves, p)
             L == MovesOf(next, p)
             f == [k \in K |-> moves[k].cost]
             g == [k \in L |-> next[k].cost]
             h == [k \in K |-> moves[k].units]
             i == [k \in L |-> next[k].units]
  <2>1. /\ K \subseteq DOMAIN moves /\ L = (IF x.product = p THEN K \cup {n} ELSE K) /\ n \notin K
        /\ \A k \in K : next[k] = moves[k]
    BY <1>1 DEF MovesOf
  <2>2. IsFiniteSet(K)
    BY <1>2, <2>1, FS_Subset DEF MoveList
  <2>3. /\ DOMAIN f = K /\ DOMAIN g = L
        /\ n \in L => g[n] = x.cost /\ i[n] = x.units
        /\ DOMAIN h = K /\ DOMAIN i = L
        /\ \A k \in K : g[k] = f[k] /\ i[k] = h[k] /\ f[k] \in Int /\ h[k] \in Int
        /\ x.cost \in Int /\ x.units \in Int
    BY <1>1, <1>2, <2>1 DEF MoveList
  <2>4. /\ MovedCost(next, p) = SumFunction(g) /\ MovedCost(moves, p) = SumFunction(f)
        /\ MovedUnits(next, p) = SumFunction(i) /\ MovedUnits(moves, p) = SumFunction(h)
    BY DEF MovedCost, MovedUnits
  <2> HIDE DEF f, g, h, i, K, L
  <2>5. /\ IsFiniteSet(DOMAIN f) /\ n \notin DOMAIN f
        /\ DOMAIN g = DOMAIN f \/ DOMAIN g = DOMAIN f \cup {n}
        /\ \A y \in DOMAIN f : f[y] \in Int /\ g[y] = f[y]
        /\ n \in DOMAIN g => g[n] \in Int
    BY <2>1, <2>2, <2>3
  <2>6. /\ IsFiniteSet(DOMAIN h) /\ n \notin DOMAIN h
        /\ DOMAIN i = DOMAIN h \/ DOMAIN i = DOMAIN h \cup {n}
        /\ \A y \in DOMAIN h : h[y] \in Int /\ i[y] = h[y]
        /\ n \in DOMAIN i => i[n] \in Int
    BY <2>1, <2>2, <2>3
  <2>7. SumFunction(g) = SumFunction(f) + ValueAt(g, n)
    BY <2>5, SumGrown
  <2>8. SumFunction(i) = SumFunction(h) + ValueAt(i, n)
    BY <2>6, SumGrown
  <2>9. /\ ValueAt(g, n) = IF x.product = p THEN x.cost ELSE 0
        /\ ValueAt(i, n) = IF x.product = p THEN x.units ELSE 0
    BY <2>1, <2>3 DEF ValueAt
  <2> QED
    BY <2>4, <2>7, <2>8, <2>9
<1>5. next # <<>>
  BY <1>1
<1>6. \A k \in DOMAIN next : next[k] = x \/ \E m \in DOMAIN moves : next[k] = moves[m]
  BY <1>1
<1>7. MovesOnceMore(moves, x, next)
  BY <1>1, <1>3, <1>4, <1>5, <1>6 DEF MovesOnceMore
<1> QED
  BY <1>7 DEF next

-----------------------------------------------------------------------------
(* Moving averages.                                                        *)

\* A part of a value, rounded, is no more than the value.
LEMMA PartWithin ==
  ASSUME NEW v \in Nat, NEW s \in Nat, NEW u \in Nat, u < s
  PROVE  (v * u + s \div 2) \div s \in 0 .. v
<1> DEFINE h == s \div 2
           x == v * u
           y == v * s
           q == (x + h) \div s
<1>1. h \in Nat /\ h < s
  OBVIOUS
<1>2. x \in Nat /\ y \in Nat /\ x <= y
  <2>1. v * u \in Nat /\ v * s \in Nat
    OBVIOUS
  <2>2. v * (s - u) >= 0
    OBVIOUS
  <2>3. v * (s - u) = v * s - v * u
    OBVIOUS
  <2> QED
    BY <2>1, <2>2, <2>3
<1>3. x + h \in Nat /\ s > 0
  BY <1>1, <1>2
<1> HIDE DEF x, h
<1>4. q \in Int /\ q * s <= x + h /\ x + h < (q + 1) * s
  BY <1>1, <1>2, <1>3
<1> HIDE DEF q
<1>5. q >= 0
  <2> SUFFICES ASSUME q <= -1 PROVE FALSE
    BY <1>4
  <2>1. (q + 1) * s <= 0
    BY <1>3, <1>4
  <2> QED
    BY <1>1, <1>2, <1>3, <1>4, <2>1
<1>6. q <= v
  <2> SUFFICES ASSUME q >= v + 1 PROVE FALSE
    BY <1>4
  <2>1. q * s >= (v + 1) * s
    BY <1>3, <1>4
  <2>2. (v + 1) * s = y + s
    OBVIOUS
  <2> HIDE DEF y
  <2> QED
    BY <1>1, <1>2, <1>3, <1>4, <2>1, <2>2
<1> QED
  BY <1>4, <1>5, <1>6 DEF q, x, h

\* Stock that is issued takes a part of the value, and the last of it all.
LEMMA IssueKeeps ==
  ASSUME NEW balance \in Stock, NEW units \in Nat, units <= balance.units
  PROVE  /\ IssueCost(balance, units) \in Nat
         /\ IssueStock(balance, units) \in Stock
         /\ IssueStock(balance, units).units = balance.units - units
         /\ IssueStock(balance, units).value = balance.value - IssueCost(balance, units)
         /\ IssueStock(balance, units).units = 0 => IssueStock(balance, units).value = 0
<1>1. balance.units \in Nat /\ balance.value \in Nat
  BY DEF Stock
<1>2. IssueCost(balance, units) \in 0 .. balance.value
  <2>1. CASE units = balance.units
    BY <1>1, <2>1 DEF IssueCost
  <2>2. CASE units # balance.units
    <3>1. units < balance.units
      BY <1>1, <2>2
    <3>2. \A v, s \in Nat : units < s => (v * units + s \div 2) \div s \in 0 .. v
      BY PartWithin
    <3>3. (balance.value * units + balance.units \div 2) \div balance.units \in 0 .. balance.value
      BY <1>1, <3>1, <3>2
    <3> QED
      BY <2>2, <3>3 DEF IssueCost
  <2> QED
    BY <2>1, <2>2
<1>3. units = balance.units => IssueCost(balance, units) = balance.value
  BY DEF IssueCost
<1> DEFINE cost == IssueCost(balance, units)
<1>4. IssueStock(balance, units) = [units |-> balance.units - units, value |-> balance.value - cost]
  BY DEF IssueStock
<1> HIDE DEF cost
<1> QED
  BY <1>1, <1>2, <1>3, <1>4 DEF Stock, cost

LEMMA ReceiveKeeps ==
  ASSUME NEW balance \in Stock, NEW units \in Nat \ {0}, NEW cost \in Nat
  PROVE  /\ ReceiveStock(balance, units, cost) \in Stock
         /\ ReceiveStock(balance, units, cost).units = balance.units + units
         /\ ReceiveStock(balance, units, cost).value = balance.value + cost
         /\ ReceiveStock(balance, units, cost).units # 0
  BY DEF ReceiveStock, Stock

LEMMA RoundedNat ==
  ASSUME NEW a \in Nat, NEW b \in Nat \ {0}
  PROVE  RoundDiv(a, b) \in Nat
<1>1. 2 * a + b \in Nat /\ 2 * b \in Nat \ {0}
  OBVIOUS
<1> DEFINE x == 2 * a + b
           y == 2 * b
<1> HIDE DEF x, y
<1>2. x \in Nat /\ y \in Nat \ {0} => x \div y \in Nat
  OBVIOUS
<1> QED
  BY <1>1, <1>2 DEF RoundDiv, x, y

\* What all stock is worth.
Worth(s) == SumFunction([wp \in Warehouses \X Products |-> s[wp[1]][wp[2]].value])

LEMMA PlacesFinite == IsFiniteSet(Warehouses \X Products)
  BY RetailAssumption, FS_Product

StockTyped(s) ==
  /\ s \in [Warehouses -> [Products -> Stock]]
  /\ \A w \in Warehouses, p \in Products : s[w][p].units = 0 => s[w][p].value = 0

\* s and t differ in one balance at most.
OneBalance(s, t, w, p) ==
  \A v \in Warehouses, q \in Products :
    /\ s[v][q].value \in Int /\ t[v][q].value \in Int
    /\ v # w \/ q # p => t[v][q] = s[v][q]

WorthMoves(s, t, w, p) ==
  /\ Worth(t) = Worth(s) - s[w][p].value + t[w][p].value
  /\ Worth(s) \in Int

LEMMA WorthChanged ==
  ASSUME NEW s, NEW t, NEW w \in Warehouses, NEW p \in Products, OneBalance(s, t, w, p)
  PROVE  WorthMoves(s, t, w, p)
<1> DEFINE S == Warehouses \X Products
           f == [wp \in S |-> s[wp[1]][wp[2]].value]
           g == [wp \in S |-> t[wp[1]][wp[2]].value]
           x == <<w, p>>
<1>1. x \in S /\ f[x] = s[w][p].value /\ g[x] = t[w][p].value /\ DOMAIN f = S /\ DOMAIN g = S
  OBVIOUS
<1>2. \A y \in S : f[y] \in Int /\ g[y] \in Int
  BY DEF OneBalance
<1>3. \A y \in S \ {x} : g[y] = f[y]
  BY DEF OneBalance
<1>4. Worth(s) = SumFunction(f) /\ Worth(t) = SumFunction(g) /\ IsFiniteSet(S)
  BY PlacesFinite DEF Worth
<1> HIDE DEF f, g, S, x
<1>5. SumFunction(g) = SumFunction(f) - f[x] + g[x]
  BY <1>1, <1>2, <1>3, <1>4, SumUpdate
<1>6. SumFunction(f) \in Int
  BY <1>1, <1>2, <1>4, SumInt
<1> QED
  BY <1>1, <1>4, <1>5, <1>6 DEF WorthMoves

-----------------------------------------------------------------------------
(* What the lines of an invoice book.                                      *)

Inward(form) == Direction(form.kind) = "in"

\* What was taken out and brought back of an original are numbers.
SumsKnown(o) ==
  \A p \in Products : /\ MovedUnits(movements[o], p) \in Nat /\ MovedCost(movements[o], p) \in Nat
                      /\ ReturnedUnits(o, p) \in Nat /\ RestockedCost(o, p) \in Nat

\* What holds of acc when k lines are booked.
GoodsBooked(form, o, w, acc, k) ==
  /\ acc.balance \in [Products -> Stock]
  /\ \A p \in Products : acc.balance[p].units = 0 => acc.balance[p].value = 0
  /\ acc.moves \in Seq(MoveRow)
  /\ \A m \in DOMAIN acc.moves :
       acc.moves[m].warehouse = w /\ acc.moves[m].type = Direction(form.kind)
  /\ acc.moves = <<>> => acc.balance = stock[w]
  /\ \A p \in Products :
       /\ MovedUnits(acc.moves, p) = UnitsUpTo(form.items, p, k)
       /\ MovedUnits(acc.moves, p) = 0 => MovedCost(acc.moves, p) = 0
       /\ acc.balance[p].units = IF Inward(form) THEN stock[w][p].units + MovedUnits(acc.moves, p)
                                                 ELSE stock[w][p].units - MovedUnits(acc.moves, p)
       /\ acc.balance[p].value = IF Inward(form) THEN stock[w][p].value + MovedCost(acc.moves, p)
                                                 ELSE stock[w][p].value - MovedCost(acc.moves, p)
  /\ Worth([stock EXCEPT ![w] = acc.balance]) =
       IF Inward(form) THEN Worth(stock) + TotalCost(acc.moves) ELSE Worth(stock) - TotalCost(acc.moves)
  /\ form.kind = "purchase" => TotalCost(acc.moves) = NetUpTo(NetTotals(form), form.items, k)
  /\ form.kind = "sale_return" =>
       \A p \in Products :
         /\ MovedUnits(acc.moves, p) > 0 /\ MovedUnits(acc.moves, p) = Units(form.items, p)
         /\ ReturnedUnits(o, p) + Units(form.items, p) = MovedUnits(movements[o], p)
         => RestockedCost(o, p) + MovedCost(acc.moves, p) = MovedCost(movements[o], p)

\* What one tracked line of cost c books of p.
LineBooks(form, o, w, acc, k, next, p, units, cost, balance) ==
  /\ p = form.items[k].item /\ p \in Products /\ units = form.items[k].units /\ cost \in Nat
  /\ balance \in Stock
  /\ balance.units = 0 => balance.value = 0
  /\ balance.units = IF Inward(form) THEN acc.balance[p].units + units ELSE acc.balance[p].units - units
  /\ balance.value = IF Inward(form) THEN acc.balance[p].value + cost ELSE acc.balance[p].value - cost
  /\ next.balance = [acc.balance EXCEPT ![p] = balance]
  /\ next.moves = Append(acc.moves, Move(Direction(form.kind), w, p, units, cost))
  /\ form.kind = "purchase" => cost = NetTotals(form)[k]
  /\ form.kind = "sale_return" =>
       SumsKnown(o) /\ cost = RestockCost(o, form.items, acc.moves, p, units)

LEMMA LineKeeps ==
  ASSUME StockTyped(stock), NEW form \in InvoiceForms, NEW o, NEW w \in Warehouses,
         NEW k \in 1 .. Len(form.items), NEW acc, GoodsBooked(form, o, w, acc, k - 1),
         NEW next, NEW p, NEW units, NEW cost, NEW balance,
         LineBooks(form, o, w, acc, k, next, p, units, cost, balance)
  PROVE  GoodsBooked(form, o, w, next, k)
<1> DEFINE items == form.items
           x == Move(Direction(form.kind), w, p, units, cost)
           M == acc.moves
           N == next.moves
<1>1. /\ p = items[k].item /\ p \in Products /\ units = items[k].units /\ units \in Nat \ {0}
      /\ cost \in Nat /\ k \in DOMAIN items
  BY FormItems DEF LineBooks
<1>2. /\ x \in MoveRow /\ x.product = p /\ x.units = units /\ x.cost = cost
      /\ x.warehouse = w /\ x.type = Direction(form.kind)
  BY <1>1 DEF Move, MoveRow, Direction
<1>3. /\ M \in Seq(MoveRow) /\ N = Append(M, x)
      /\ next.balance = [acc.balance EXCEPT ![p] = balance]
      /\ acc.balance \in [Products -> Stock]
  BY DEF LineBooks, GoodsBooked
<1> HIDE DEF x
<1>4. /\ N \in Seq(MoveRow) /\ N # <<>>
      /\ TotalCost(N) = TotalCost(M) + cost
      /\ \A q : /\ MovedUnits(N, q) = MovedUnits(M, q) + IF p = q THEN units ELSE 0
                /\ MovedCost(N, q) = MovedCost(M, q) + IF p = q THEN cost ELSE 0
      /\ \A m \in DOMAIN N : N[m] = x \/ \E n \in DOMAIN M : N[m] = M[n]
  <2>1. MovesOnceMore(M, x, N)
    <3> HIDE DEF M, N
    <3> QED
      BY <1>2, <1>3, MoveAppended
  <2> HIDE DEF M, N
  <2> QED
    BY <1>2, <2>1 DEF MovesOnceMore
<1>5. MoveList(M) /\ TotalCost(M) \in Nat /\ \A q : MovedUnits(M, q) \in Nat /\ MovedCost(M, q) \in Nat
  BY <1>3, RowsAreMoves, MoveSums
<1>6. /\ next.balance \in [Products -> Stock] /\ next.balance[p] = balance
      /\ \A q \in Products : q # p => next.balance[q] = acc.balance[q]
  <2>1. balance \in Stock
    BY DEF LineBooks
  <2> QED
    BY <1>1, <1>3, <2>1
<1>7. \A q \in Products : next.balance[q].units = 0 => next.balance[q].value = 0
  BY <1>6 DEF LineBooks, GoodsBooked
<1>8. \A m \in DOMAIN N : N[m].warehouse = w /\ N[m].type = Direction(form.kind)
  BY <1>2, <1>4 DEF GoodsBooked
<1>9. ASSUME NEW q \in Products
      PROVE  /\ MovedUnits(N, q) = UnitsUpTo(items, q, k)
             /\ MovedUnits(N, q) = 0 => MovedCost(N, q) = 0
             /\ next.balance[q].units = IF Inward(form) THEN stock[w][q].units + MovedUnits(N, q)
                                                        ELSE stock[w][q].units - MovedUnits(N, q)
             /\ next.balance[q].value = IF Inward(form) THEN stock[w][q].value + MovedCost(N, q)
                                                        ELSE stock[w][q].value - MovedCost(N, q)
  <2>1. /\ MovedUnits(M, q) = UnitsUpTo(items, q, k - 1)
        /\ MovedUnits(M, q) = 0 => MovedCost(M, q) = 0
        /\ acc.balance[q].units = IF Inward(form) THEN stock[w][q].units + MovedUnits(M, q)
                                                  ELSE stock[w][q].units - MovedUnits(M, q)
        /\ acc.balance[q].value = IF Inward(form) THEN stock[w][q].value + MovedCost(M, q)
                                                  ELSE stock[w][q].value - MovedCost(M, q)
    BY DEF GoodsBooked
  <2>2. stock[w][q].units \in Nat /\ stock[w][q].value \in Nat
    BY DEF StockTyped, Stock
  <2>3. UnitsUpTo(items, q, k) = UnitsUpTo(items, q, k - 1) + IF p = q THEN units ELSE 0
    BY <1>1, LineCounted
  <2>4. CASE q = p
    <3>1. MovedUnits(N, q) = MovedUnits(M, q) + units /\ MovedCost(N, q) = MovedCost(M, q) + cost
      BY <1>4, <2>4
    <3>2. /\ next.balance[q].units = IF Inward(form) THEN acc.balance[q].units + units
                                                     ELSE acc.balance[q].units - units
          /\ next.balance[q].value = IF Inward(form) THEN acc.balance[q].value + cost
                                                     ELSE acc.balance[q].value - cost
      BY <1>6, <2>4 DEF LineBooks
    <3>3. MovedUnits(N, q) = UnitsUpTo(items, q, k)
      BY <2>1, <2>3, <2>4, <3>1
    <3>4. /\ MovedUnits(M, q) \in Nat /\ MovedCost(M, q) \in Nat
          /\ acc.balance[p] = acc.balance[q]
      BY <1>5, <2>4
    <3>7. MovedUnits(N, q) # 0
      BY <1>1, <3>1, <3>4
    <3> DEFINE mu == MovedUnits(M, q)
               mc == MovedCost(M, q)
               su == stock[w][q].units
               sv == stock[w][q].value
               au == acc.balance[q].units
               av == acc.balance[q].value
               nu == next.balance[q].units
               nv == next.balance[q].value
    <3>5. /\ mu \in Nat /\ mc \in Nat /\ su \in Nat /\ sv \in Nat /\ units \in Nat /\ cost \in Nat
          /\ au = IF Inward(form) THEN su + mu ELSE su - mu
          /\ av = IF Inward(form) THEN sv + mc ELSE sv - mc
          /\ nu = IF Inward(form) THEN au + units ELSE au - units
          /\ nv = IF Inward(form) THEN av + cost ELSE av - cost
      BY <1>1, <2>1, <2>2, <3>2, <3>4
    <3> HIDE DEF mu, mc, su, sv, au, av, nu, nv
    <3>6. /\ nu = IF Inward(form) THEN su + (mu + units) ELSE su - (mu + units)
          /\ nv = IF Inward(form) THEN sv + (mc + cost) ELSE sv - (mc + cost)
      BY <3>5
    <3> QED
      BY <3>1, <3>3, <3>6, <3>7 DEF mu, mc, su, sv, nu, nv
  <2>5. CASE q # p
    <3>1. MovedUnits(N, q) = MovedUnits(M, q) /\ MovedCost(N, q) = MovedCost(M, q)
      BY <1>4, <1>5, <2>5
    <3>2. UnitsUpTo(items, q, k) = UnitsUpTo(items, q, k - 1)
      BY <1>5, <2>1, <2>3, <2>5
    <3> QED
      BY <1>6, <2>1, <2>5, <3>1, <3>2
  <2> QED
    BY <2>4, <2>5
<1>10. Worth([stock EXCEPT ![w] = next.balance]) =
         IF Inward(form) THEN Worth(stock) + TotalCost(N) ELSE Worth(stock) - TotalCost(N)
  <2> DEFINE s == [stock EXCEPT ![w] = acc.balance]
             t == [stock EXCEPT ![w] = next.balance]
  <2>1. /\ stock \in [Warehouses -> [Products -> Stock]]
        /\ \A y \in Stock : y.units \in Nat /\ y.value \in Nat
    BY DEF StockTyped, Stock
  <2>2. /\ s \in [Warehouses -> [Products -> Stock]] /\ t \in [Warehouses -> [Products -> Stock]]
        /\ s[w][p] = acc.balance[p] /\ t[w][p] = balance
        /\ \A v \in Warehouses, q \in Products : v # w \/ q # p => t[v][q] = s[v][q]
    BY <1>1, <1>3, <1>6, <2>1
  <2> HIDE DEF s, t
  <2>3. OneBalance(s, t, w, p)
    BY <2>1, <2>2 DEF OneBalance
  <2>4. Worth(t) = Worth(s) - s[w][p].value + t[w][p].value /\ Worth(s) \in Int
    BY <1>1, <2>3, WorthChanged DEF WorthMoves
  <2>5. Worth(s) = IF Inward(form) THEN Worth(stock) + TotalCost(M) ELSE Worth(stock) - TotalCost(M)
    BY DEF GoodsBooked, s
  <2>6. balance.value = IF Inward(form) THEN acc.balance[p].value + cost ELSE acc.balance[p].value - cost
    BY DEF LineBooks
  <2>7. Worth(stock) \in Int
    <3>1. OneBalance(stock, stock, w, p)
      BY <2>1 DEF OneBalance
    <3> QED
      BY <1>1, <3>1, WorthChanged DEF WorthMoves
  <2>8. acc.balance[p].value \in Int
    BY <1>1, <1>3, <2>1
  <2> DEFINE ws == Worth(s)
             wt == Worth(t)
             w0 == Worth(stock)
             tm == TotalCost(M)
             tn == TotalCost(N)
             av == acc.balance[p].value
             bv == balance.value
  <2>9. /\ ws \in Int /\ w0 \in Int /\ tm \in Int /\ cost \in Int /\ av \in Int
        /\ wt = ws - av + bv /\ tn = tm + cost
        /\ ws = IF Inward(form) THEN w0 + tm ELSE w0 - tm
        /\ bv = IF Inward(form) THEN av + cost ELSE av - cost
    <3>1. ws \in Int /\ w0 \in Int /\ tm \in Int /\ cost \in Int /\ av \in Int
      <4>1. ws \in Int
        BY <2>4
      <4>2. w0 \in Int
        BY <2>7
      <4>3. tm \in Int /\ cost \in Int
        BY <1>1, <1>5
      <4>4. av \in Int
        BY <2>8
      <4> QED
        BY <4>1, <4>2, <4>3, <4>4
    <3>2. wt = ws - av + bv
      BY <2>2, <2>4
    <3>3. tn = tm + cost
      BY <1>4
    <3>4. ws = IF Inward(form) THEN w0 + tm ELSE w0 - tm
      BY <2>5
    <3>5. bv = IF Inward(form) THEN av + cost ELSE av - cost
      BY <2>6
    <3> QED
      BY <3>1, <3>2, <3>3, <3>4, <3>5
  <2> HIDE DEF ws, wt, w0, tm, tn, av, bv
  <2>10. wt = IF Inward(form) THEN w0 + tn ELSE w0 - tn
    BY <2>9
  <2> QED
    BY <2>10 DEF t, wt, w0, tn
<1>11. form.kind = "purchase" => TotalCost(N) = NetUpTo(NetTotals(form), items, k)
  <2> SUFFICES ASSUME form.kind = "purchase" PROVE TotalCost(N) = NetUpTo(NetTotals(form), items, k)
    OBVIOUS
  <2>1. cost = NetTotals(form)[k] /\ p \notin Services
    BY <1>1, RetailAssumption DEF LineBooks
  <2>2. \A m \in 1 .. Len(items) : NetTotals(form)[m] \in Int
    BY NetsAreInts, FormItems
  <2>3. NetUpTo(NetTotals(form), items, k) = NetUpTo(NetTotals(form), items, k - 1) + cost
    BY <1>1, <2>1, <2>2, LineNetted
  <2>4. TotalCost(M) = NetUpTo(NetTotals(form), items, k - 1)
    BY DEF GoodsBooked
  <2> QED
    BY <1>4, <2>3, <2>4
<1>12. ASSUME form.kind = "sale_return", NEW q \in Products,
              MovedUnits(N, q) > 0, MovedUnits(N, q) = Units(items, q),
              ReturnedUnits(o, q) + Units(items, q) = MovedUnits(movements[o], q)
       PROVE  RestockedCost(o, q) + MovedCost(N, q) = MovedCost(movements[o], q)
  <2>1. SumsKnown(o) /\ cost = RestockCost(o, items, M, p, units)
    BY <1>12 DEF LineBooks
  <2>2. CASE q = p
    <3>1. MovedUnits(N, p) = MovedUnits(M, p) + units /\ MovedCost(N, p) = MovedCost(M, p) + cost
      BY <1>4
    <3>2. /\ ReturnedUnits(o, p) + Units(items, p) = MovedUnits(movements[o], p)
          /\ MovedUnits(M, p) + units = Units(items, p)
      BY <1>12, <2>2, <3>1
    <3>3. cost = MovedCost(movements[o], p) - RestockedCost(o, p) - MovedCost(M, p)
      BY <2>1, <3>2 DEF RestockCost
    <3>4. /\ MovedCost(M, p) \in Nat /\ cost \in Nat /\ RestockedCost(o, p) \in Nat
          /\ MovedCost(movements[o], p) \in Nat
      BY <1>1, <1>5, <2>1 DEF SumsKnown
    <3> DEFINE sold == MovedCost(movements[o], p)
               back == RestockedCost(o, p)
               before == MovedCost(M, p)
    <3>5. /\ sold \in Nat /\ before \in Nat /\ cost \in Nat /\ back \in Nat
          /\ cost = sold - back - before
          /\ MovedCost(N, p) = before + cost
      BY <3>1, <3>3, <3>4
    <3> HIDE DEF sold, back, before
    <3>6. back + MovedCost(N, p) = sold
      BY <3>5
    <3> QED
      BY <2>2, <3>6 DEF sold, back
  <2>3. CASE q # p
    <3>1. MovedUnits(N, q) = MovedUnits(M, q) /\ MovedCost(N, q) = MovedCost(M, q)
      BY <1>4, <1>5, <2>3
    <3> QED
      BY <1>12, <3>1 DEF GoodsBooked
  <2> QED
    BY <2>2, <2>3
<1> HIDE DEF M, N, items
<1> QED
  BY <1>4, <1>6, <1>7, <1>8, <1>9, <1>10, <1>11, <1>12 DEF GoodsBooked, M, N, items

\* A sale return names a sale, of every tracked product it brings back.
Brings(form, o) ==
  form.kind = "sale_return" =>
    /\ SumsKnown(o)
    /\ \A k \in DOMAIN form.items :
         form.items[k].item \in Products => MovedUnits(movements[o], form.items[k].item) # 0

LEMMA KindDirection ==
  ASSUME NEW form \in InvoiceForms
  PROVE  /\ Direction(form.kind) \in {"in", "out"}
         /\ Inward(form) <=> form.kind \in {"purchase", "sale_return"}
         /\ Direction(form.kind) = "out" <=> form.kind \in {"sale", "non_formal", "purchase_return"}
  BY FormGrand DEF Direction, Inward, OriginalKinds, ReturnKinds

LEMMA ServiceKeeps ==
  ASSUME NEW form \in InvoiceForms, NEW o, NEW w,
         NEW k \in 1 .. Len(form.items), NEW acc, GoodsBooked(form, o, w, acc, k - 1),
         form.items[k].item \in Services
  PROVE  GoodsBooked(form, o, w, acc, k)
<1>1. ASSUME NEW p \in Products PROVE UnitsUpTo(form.items, p, k) = UnitsUpTo(form.items, p, k - 1)
  <2>1. form.items[k].item # p
    BY RetailAssumption
  <2> DEFINE items == form.items
             old == UnitsUpTo(items, p, k - 1)
  <2>2. /\ UnitsUpTo(items, p, k) = old + IF items[k].item = p THEN items[k].units ELSE 0
        /\ old \in Int
    BY LineCounted
  <2> HIDE DEF old
  <2>3. UnitsUpTo(items, p, k) = old
    BY <2>1, <2>2
  <2> QED
    BY <2>3 DEF old
<1>2. NetUpTo(NetTotals(form), form.items, k) = NetUpTo(NetTotals(form), form.items, k - 1)
  <2>1. \A m \in 1 .. Len(form.items) : NetTotals(form)[m] \in Int
    BY NetsAreInts, FormItems
  <2> DEFINE net == NetTotals(form)
  <2> HIDE DEF net
  <2>2. /\ NetUpTo(net, form.items, k) = NetUpTo(net, form.items, k - 1) + 0
        /\ NetUpTo(net, form.items, k - 1) \in Int
    BY <2>1, LineNetted DEF net
  <2> QED
    BY <2>2 DEF net
<1> QED
  BY <1>1, <1>2 DEF GoodsBooked

LEMMA OutKeeps ==
  ASSUME StockTyped(stock), NEW form \in InvoiceForms, NEW o, NEW w \in Warehouses,
         NEW k \in 1 .. Len(form.items), NEW acc, GoodsBooked(form, o, w, acc, k - 1),
         form.items[k].item \in Products, Direction(form.kind) = "out",
         NEW next, next = BookOut(acc, w, form.items[k].item, form.items[k].units), next.ok
  PROVE  GoodsBooked(form, o, w, next, k)
<1> DEFINE p == form.items[k].item
           units == form.items[k].units
           cost == IssueCost(acc.balance[p], units)
           balance == IssueStock(acc.balance[p], units)
<1>1. p \in Products /\ units \in Nat /\ acc.balance[p] \in Stock
      /\ acc.balance \in [Products -> Stock]
  BY FormItems DEF GoodsBooked
<1>2. CanIssue(acc.balance[p], units)
  BY DEF BookOut, Fail
<1>3. /\ next.balance = [acc.balance EXCEPT ![p] = balance]
      /\ next.moves = Append(acc.moves, Move("out", w, p, units, cost))
  BY <1>1, <1>2 DEF BookOut
<1>4. units <= acc.balance[p].units
  BY <1>2 DEF CanIssue
<1>5. /\ cost \in Nat /\ balance \in Stock
      /\ balance.units = acc.balance[p].units - units
      /\ balance.value = acc.balance[p].value - cost
      /\ balance.units = 0 => balance.value = 0
  BY <1>1, <1>4, IssueKeeps
<1>6. ~Inward(form) /\ form.kind # "purchase" /\ form.kind # "sale_return"
  BY KindDirection DEF Inward
<1> HIDE DEF cost, balance
<1>7. LineBooks(form, o, w, acc, k, next, p, units, cost, balance)
  BY <1>1, <1>3, <1>5, <1>6 DEF LineBooks
<1> HIDE DEF p, units
<1> QED
  BY <1>7, LineKeeps

LEMMA InKeeps ==
  ASSUME StockTyped(stock), NEW form \in InvoiceForms, NEW o, NEW w \in Warehouses,
         NEW k \in 1 .. Len(form.items), NEW acc, GoodsBooked(form, o, w, acc, k - 1),
         form.items[k].item \in Products, Direction(form.kind) = "in", NEW cost \in Int,
         form.kind = "purchase" => cost = NetTotals(form)[k],
         form.kind = "sale_return" =>
           /\ SumsKnown(o)
           /\ cost = RestockCost(o, form.items, acc.moves, form.items[k].item, form.items[k].units),
         NEW next, next = BookIn(acc, w, form.items[k].item, form.items[k].units, cost), next.ok
  PROVE  GoodsBooked(form, o, w, next, k)
<1> DEFINE p == form.items[k].item
           units == form.items[k].units
           balance == ReceiveStock(acc.balance[p], units, cost)
<1>1. p \in Products /\ units \in Nat \ {0} /\ acc.balance[p] \in Stock
      /\ acc.balance \in [Products -> Stock]
  BY FormItems DEF GoodsBooked
<1>2. cost \in Nat
  BY DEF BookIn, Fail
<1>3. /\ next.balance = [acc.balance EXCEPT ![p] = balance]
      /\ next.moves = Append(acc.moves, Move("in", w, p, units, cost))
  BY <1>1, <1>2 DEF BookIn
<1>4. /\ balance \in Stock
      /\ balance.units = acc.balance[p].units + units
      /\ balance.value = acc.balance[p].value + cost
      /\ balance.units # 0
  BY <1>1, <1>2, ReceiveKeeps
<1>5. Inward(form)
  BY DEF Inward
<1> HIDE DEF balance
<1>6. LineBooks(form, o, w, acc, k, next, p, units, cost, balance)
  BY <1>1, <1>2, <1>3, <1>4, <1>5 DEF LineBooks
<1> HIDE DEF p, units
<1> QED
  BY <1>6, LineKeeps

LEMMA RestockInt ==
  ASSUME NEW form \in InvoiceForms, NEW o, NEW moves \in Seq(MoveRow), SumsKnown(o),
         NEW p \in Products, MovedUnits(movements[o], p) # 0, NEW units \in Nat
  PROVE  RestockCost(o, form.items, moves, p, units) \in Int
<1>1. /\ MovedUnits(movements[o], p) \in Nat \ {0} /\ MovedCost(movements[o], p) \in Nat
      /\ RestockedCost(o, p) \in Nat
  BY DEF SumsKnown
<1>2. MovedCost(moves, p) \in Nat
  BY RowsAreMoves, MoveSums
<1> DEFINE part == MovedCost(movements[o], p) * units
<1>3. part \in Nat
  BY <1>1
<1> HIDE DEF part
<1>4. RoundDiv(part, MovedUnits(movements[o], p)) \in Nat
  BY <1>1, <1>3, RoundedNat
<1> QED
  BY <1>1, <1>2, <1>4 DEF RestockCost, part

LEMMA EveryLineKeeps ==
  ASSUME StockTyped(stock), NEW form \in InvoiceForms, NEW o, NEW w \in Warehouses, Brings(form, o),
         NEW k \in 1 .. Len(form.items), NEW acc, acc.ok => GoodsBooked(form, o, w, acc, k - 1),
         NEW next, next = BookLine(form, o, w, acc, k), next.ok
  PROVE  GoodsBooked(form, o, w, next, k)
<1> DEFINE p == form.items[k].item
           units == form.items[k].units
<1>1. p \in Products \cup Services /\ units \in Nat \ {0} /\ k \in DOMAIN form.items
  BY FormItems
<1>2. acc.ok /\ GoodsBooked(form, o, w, acc, k - 1)
  BY DEF BookLine
<1>3. CASE p \in Services
  <2>1. next = acc
    BY <1>2, <1>3 DEF BookLine
  <2> QED
    BY <1>2, <1>3, <2>1, ServiceKeeps
<1>4. CASE p \notin Services /\ Direction(form.kind) = "out"
  <2>1. next = BookOut(acc, w, p, units)
    BY <1>2, <1>4 DEF BookLine
  <2> QED
    BY <1>1, <1>2, <1>4, <2>1, OutKeeps
<1>5. CASE p \notin Services /\ Direction(form.kind) = "in"
  <2> DEFINE cost == IF form.kind = "purchase" THEN NetTotals(form)[k]
                     ELSE RestockCost(o, form.items, acc.moves, p, units)
  <2>1. next = BookIn(acc, w, p, units, cost)
    BY <1>2, <1>5 DEF BookLine
  <2>2. form.kind \in {"purchase", "sale_return"} /\ "purchase" # "sale_return"
    BY <1>5, KindDirection DEF Inward
  <2>3. cost \in Int
    <3>1. CASE form.kind = "purchase"
      BY <1>1, <3>1, NetsAreInts
    <3>2. CASE form.kind = "sale_return"
      <4>1. SumsKnown(o) /\ MovedUnits(movements[o], p) # 0 /\ p \in Products
        BY <1>1, <1>5, <3>2 DEF Brings
      <4>2. acc.moves \in Seq(MoveRow)
        BY <1>2 DEF GoodsBooked
      <4>3. cost = RestockCost(o, form.items, acc.moves, p, units)
        BY <3>2
      <4> QED
        BY <1>1, <4>1, <4>2, <4>3, RestockInt
    <3> QED
      BY <2>2, <3>1, <3>2
  <2>4. /\ form.kind = "purchase" => cost = NetTotals(form)[k]
        /\ form.kind = "sale_return" =>
             SumsKnown(o) /\ cost = RestockCost(o, form.items, acc.moves, p, units)
    BY <2>2 DEF Brings
  <2>5. p \in Products
    BY <1>1, <1>5
  <2> HIDE DEF cost
  <2> QED
    BY <1>2, <1>5, <2>1, <2>3, <2>4, <2>5, InKeeps
<1> QED
  BY <1>3, <1>4, <1>5, KindDirection

LEMMA NothingBooked ==
  ASSUME StockTyped(stock), NEW form \in InvoiceForms, NEW o, NEW w \in Warehouses, NEW acc,
         acc = [ok |-> TRUE, balance |-> stock[w], moves |-> <<>>]
  PROVE  GoodsBooked(form, o, w, acc, 0)
<1>1. /\ acc.balance = stock[w] /\ acc.moves = <<>> /\ acc.moves \in Seq(MoveRow)
      /\ DOMAIN acc.moves = {}
  OBVIOUS
<1>2. TotalCost(acc.moves) = 0 /\ \A p : MovedUnits(acc.moves, p) = 0 /\ MovedCost(acc.moves, p) = 0
  BY <1>1, NoMoves
<1>3. /\ stock[w] \in [Products -> Stock] /\ [stock EXCEPT ![w] = stock[w]] = stock
      /\ \A p \in Products : stock[w][p].units = 0 => stock[w][p].value = 0
  BY DEF StockTyped
<1>4. \A p \in Products : stock[w][p].units \in Nat /\ stock[w][p].value \in Nat
  BY <1>3 DEF Stock
<1>5. Worth(stock) \in Int
  <2>1. CASE Products = {}
    <3> DEFINE f == [wp \in Warehouses \X Products |-> stock[wp[1]][wp[2]].value]
    <3>1. DOMAIN f = {} /\ Worth(stock) = SumFunction(f)
      BY <2>1 DEF Worth
    <3> HIDE DEF f
    <3> QED
      BY <3>1, SumNothing
  <2>2. ASSUME NEW p \in Products PROVE Worth(stock) \in Int
    <3>1. \A y \in Stock : y.value \in Int
      BY DEF Stock
    <3>2. OneBalance(stock, stock, w, p)
      BY <3>1 DEF OneBalance, StockTyped
    <3> QED
      BY <3>2, WorthChanged DEF WorthMoves
  <2> QED
    BY <2>1, <2>2
<1>6. NetUpTo(NetTotals(form), form.items, 0) = 0 /\ \A p : UnitsUpTo(form.items, p, 0) = 0
  BY NothingCounted
<1> QED
  BY <1>1, <1>2, <1>3, <1>4, <1>5, <1>6 DEF GoodsBooked

\* What the whole invoice books.
LEMMA GoodsOfInvoice ==
  ASSUME StockTyped(stock), NEW form \in InvoiceForms, NEW o, NEW w \in Warehouses, Brings(form, o),
         BookItems(form, o, w).ok
  PROVE  GoodsBooked(form, o, w, BookItems(form, o, w), Len(form.items))
<1> DEFINE n == Len(form.items)
<1>1. n \in Nat
  BY FormItems
<1>2. PICK b : /\ BookItems(form, o, w) = b[n]
               /\ b[0] = [ok |-> TRUE, balance |-> stock[w], moves |-> <<>>]
               /\ \A k \in 1 .. n : b[k] = BookLine(form, o, w, b[k - 1], k)
  BY <1>1, BookUnfolds
<1> DEFINE G == {k \in 0 .. n : b[k].ok => GoodsBooked(form, o, w, b[k], k)}
<1>3. 0 \in G
  BY <1>1, <1>2, NothingBooked
<1>4. ASSUME NEW k \in 1 .. n, k - 1 \in G
      PROVE  k \in G
  <2>1. b[k - 1].ok => GoodsBooked(form, o, w, b[k - 1], k - 1)
    BY <1>4
  <2>2. b[k] = BookLine(form, o, w, b[k - 1], k)
    BY <1>2
  <2>3. b[k].ok => GoodsBooked(form, o, w, b[k], k)
    BY <2>1, <2>2, EveryLineKeeps
  <2> QED
    BY <2>3
<1> HIDE DEF G
<1>5. \A k \in 0 .. n : k \in G
  BY <1>1, <1>3, <1>4, UpTo
<1>6. n \in G
  BY <1>1, <1>5
<1> QED
  BY <1>2, <1>6 DEF G

-----------------------------------------------------------------------------
(* What all movements come to.                                             *)

DatedRow == [type: {"in", "out"}, warehouse: Warehouses, product: Products,
             units: Nat, cost: Nat, date: Dates]

\* Of a list of movements, those of product p into or out of warehouse w.
ListOf(M, w, p, type) ==
  {k \in DOMAIN M : M[k].warehouse = w /\ M[k].product = p /\ M[k].type = type}

ListUnits(M, w, p, type) == SumFunction([k \in ListOf(M, w, p, type) |-> M[k].units])
ListCost(M, w, p, type) == SumFunction([k \in ListOf(M, w, p, type) |-> M[k].cost])

LEMMA DatedRows ==
  ASSUME NEW M \in Seq(DatedRow)
  PROVE  /\ MoveList(M) /\ IsFiniteSet(DOMAIN M)
         /\ \A k \in DOMAIN M : /\ M[k] \in DatedRow /\ M[k].units \in Nat /\ M[k].cost \in Nat
                                /\ M[k].warehouse \in Warehouses /\ M[k].product \in Products
<1>1. \A x \in DatedRow : /\ x.units \in Nat /\ x.cost \in Nat
                          /\ x.warehouse \in Warehouses /\ x.product \in Products
  BY DEF DatedRow
<1>2. DOMAIN M = 1 .. Len(M) /\ Len(M) \in Nat /\ \A k \in DOMAIN M : M[k] \in DatedRow
  OBVIOUS
<1> QED
  BY <1>1, <1>2, FS_Interval DEF MoveList

\* Every document lists what it moved, and finitely many did.
Documented == movements \in [Documents -> Seq(DatedRow)] /\ IsFiniteSet(MovementRows)

LEMMA DocumentMoved ==
  ASSUME Documented, NEW doc \in Documents, movements[doc] = <<>>, NEW M \in Seq(DatedRow),
         movements' = [movements EXCEPT ![doc] = M]
  PROVE  /\ Documented'
         /\ \A w, p, type :
              /\ UnitsMoved(MovementRows, w, p, type)' =
                   UnitsMoved(MovementRows, w, p, type) + ListUnits(M, w, p, type)
              /\ ValueMoved(MovementRows, w, p, type)' =
                   ValueMoved(MovementRows, w, p, type) + ListCost(M, w, p, type)
              /\ UnitsMoved(MovementRows, w, p, type) \in Int /\ ListUnits(M, w, p, type) \in Int
              /\ ValueMoved(MovementRows, w, p, type) \in Int /\ ListCost(M, w, p, type) \in Int
<1> DEFINE R == MovementRows
           N == {<<doc, k>> : k \in DOMAIN M}
<1>1. /\ movements' \in [Documents -> Seq(DatedRow)] /\ movements'[doc] = M
      /\ \A b \in Documents \ {doc} : movements'[b] = movements[b]
  BY DEF Documented
<1>2. \A row \in R : row[1] \in Documents /\ row[1] # doc /\ row[2] \in DOMAIN movements[row[1]]
  <2> SUFFICES ASSUME NEW row \in R
               PROVE  row[1] \in Documents /\ row[1] # doc /\ row[2] \in DOMAIN movements[row[1]]
    OBVIOUS
  <2>1. PICK b \in Documents : row \in {b} \X DOMAIN movements[b]
    BY DEF MovementRows
  <2>2. b # doc
    BY <2>1
  <2> QED
    BY <2>1, <2>2
<1>3. MovementRows' = R \cup N
  <2>1. MovementRows' \subseteq R \cup N
    <3> SUFFICES ASSUME NEW row \in MovementRows' PROVE row \in R \cup N
      OBVIOUS
    <3>1. PICK b \in Documents : row \in {b} \X DOMAIN movements'[b]
      BY DEF MovementRows
    <3>2. CASE b = doc
      BY <1>1, <3>1, <3>2
    <3>3. CASE b # doc
      <4>1. row \in {b} \X DOMAIN movements[b]
        BY <1>1, <3>1, <3>3
      <4> QED
        BY <4>1 DEF MovementRows
    <3> QED
      BY <3>2, <3>3
  <2>2. R \subseteq MovementRows'
    <3> SUFFICES ASSUME NEW row \in R PROVE row \in MovementRows'
      OBVIOUS
    <3>1. PICK b \in Documents : row \in {b} \X DOMAIN movements[b]
      BY DEF MovementRows
    <3>2. b # doc
      BY <3>1
    <3>3. row \in {b} \X DOMAIN movements'[b]
      BY <1>1, <3>1, <3>2
    <3> QED
      BY <3>3 DEF MovementRows
  <2>3. N \subseteq MovementRows'
    <3> SUFFICES ASSUME NEW k \in DOMAIN M PROVE <<doc, k>> \in MovementRows'
      OBVIOUS
    <3>1. <<doc, k>> \in {doc} \X DOMAIN movements'[doc]
      BY <1>1
    <3> QED
      BY <3>1 DEF MovementRows
  <2> QED
    BY <2>1, <2>2, <2>3
<1>4. /\ \A row \in R : Movement(row)' = Movement(row) /\ Movement(row) \in DatedRow
      /\ \A k \in DOMAIN M : Movement(<<doc, k>>)' = M[k] /\ M[k] \in DatedRow
  <2>1. ASSUME NEW row \in R PROVE Movement(row)' = Movement(row) /\ Movement(row) \in DatedRow
    <3>1. movements[row[1]] \in Seq(DatedRow) /\ row[2] \in DOMAIN movements[row[1]]
      BY <1>2 DEF Documented
    <3>2. movements[row[1]][row[2]] \in DatedRow
      BY <3>1, DatedRows
    <3> QED
      BY <1>1, <1>2, <3>2 DEF Movement
  <2>2. ASSUME NEW k \in DOMAIN M PROVE Movement(<<doc, k>>)' = M[k] /\ M[k] \in DatedRow
    BY <1>1, DatedRows DEF Movement
  <2> QED
    BY <2>1, <2>2
<1>5. IsFiniteSet(R) /\ IsFiniteSet(DOMAIN M) /\ IsFiniteSet(N)
  <2>1. IsFiniteSet(DOMAIN M)
    BY DatedRows
  <2> DEFINE e == [k \in DOMAIN M |-> <<doc, k>>]
  <2>2. N = {e[k] : k \in DOMAIN M}
    OBVIOUS
  <2> HIDE DEF e
  <2>3. IsFiniteSet({e[k] : k \in DOMAIN M})
    BY <2>1, FiniteImage
  <2> QED
    BY <2>1, <2>2, <2>3 DEF Documented
<1>6. Documented'
  <2> HIDE DEF R, N
  <2>1. IsFiniteSet(R \cup N)
    BY <1>5, FS_Union
  <2> QED
    BY <1>1, <1>3, <2>1 DEF Documented
<1>7. \A x \in DatedRow : x.units \in Int /\ x.cost \in Int
  BY DEF DatedRow
<1> HIDE DEF R
<1>8. ASSUME NEW w, NEW p, NEW type
      PROVE  /\ UnitsMoved(MovementRows, w, p, type)' =
                  UnitsMoved(MovementRows, w, p, type) + ListUnits(M, w, p, type)
             /\ ValueMoved(MovementRows, w, p, type)' =
                  ValueMoved(MovementRows, w, p, type) + ListCost(M, w, p, type)
             /\ UnitsMoved(MovementRows, w, p, type) \in Int /\ ListUnits(M, w, p, type) \in Int
             /\ ValueMoved(MovementRows, w, p, type) \in Int /\ ListCost(M, w, p, type) \in Int
  <2> DEFINE A == MovementsOf(R, w, p, type)
             K == ListOf(M, w, p, type)
             A2 == MovementsOf(MovementRows, w, p, type)'
             F == [row \in A2 |-> Movement(row)'.units]
             f == [row \in A |-> Movement(row).units]
             g == [k \in K |-> M[k].units]
             H == [row \in A2 |-> Movement(row)'.cost]
             h == [row \in A |-> Movement(row).cost]
             i == [k \in K |-> M[k].cost]
  <2>1. A2 = A \cup {<<doc, k>> : k \in K}
    BY <1>3, <1>4 DEF MovementsOf, ListOf
  <2>2. A \subseteq R /\ K \subseteq DOMAIN M
    BY DEF MovementsOf, ListOf
  <2>3. /\ UnitsMoved(MovementRows, w, p, type)' = SumFunction(F)
        /\ UnitsMoved(MovementRows, w, p, type) = SumFunction(f)
        /\ ListUnits(M, w, p, type) = SumFunction(g)
    BY DEF UnitsMoved, ListUnits, R
  <2>4. /\ ValueMoved(MovementRows, w, p, type)' = SumFunction(H)
        /\ ValueMoved(MovementRows, w, p, type) = SumFunction(h)
        /\ ListCost(M, w, p, type) = SumFunction(i)
    BY DEF ValueMoved, ListCost, R
  <2>5. /\ DOMAIN F = A2 /\ DOMAIN H = A2 /\ DOMAIN f = A /\ DOMAIN h = A /\ DOMAIN g = K /\ DOMAIN i = K
        /\ \A row \in A2 : F[row] = Movement(row)'.units /\ H[row] = Movement(row)'.cost
        /\ \A row \in A : f[row] = Movement(row).units /\ h[row] = Movement(row).cost
        /\ \A k \in K : g[k] = M[k].units /\ i[k] = M[k].cost
    OBVIOUS
  <2>6. IsFiniteSet(A) /\ IsFiniteSet(K)
    BY <1>5, <2>2, FS_Subset
  <2> HIDE DEF A, A2, K, F, f, g, H, h, i
  <2>7. \A row \in A : row[1] # doc
    BY <1>2, <2>2
  <2>8. /\ \A row \in A : f[row] \in Int /\ F[row] = f[row] /\ h[row] \in Int /\ H[row] = h[row]
        /\ \A k \in K : g[k] \in Int /\ F[<<doc, k>>] = g[k] /\ i[k] \in Int /\ H[<<doc, k>>] = i[k]
    <3>1. \A row \in A : f[row] \in Int /\ F[row] = f[row] /\ h[row] \in Int /\ H[row] = h[row]
      BY <1>4, <1>7, <2>1, <2>2, <2>5
    <3>2. \A k \in K : g[k] \in Int /\ F[<<doc, k>>] = g[k] /\ i[k] \in Int /\ H[<<doc, k>>] = i[k]
      BY <1>4, <1>7, <2>1, <2>2, <2>5
    <3> QED
      BY <3>1, <3>2
  <2> DEFINE e == [k \in K |-> <<doc, k>>]
             B == {e[k] : k \in K}
  <2>9. /\ A2 = A \cup B /\ A \cap B = {} /\ \A x, y \in K : e[x] = e[y] => x = y
        /\ \A k \in K : F[e[k]] = g[k] /\ H[e[k]] = i[k]
    BY <2>1, <2>7, <2>8
  <2>10. \A x \in A \cup B : F[x] \in Int /\ H[x] \in Int
    BY <2>8
  <2>11. B = {e[k] : k \in K}
    OBVIOUS
  <2> HIDE DEF e, B
  <2>12. /\ SumFunction(F) = SumFunction(f) + SumFunction(g)
         /\ SumFunction(f) \in Int /\ SumFunction(g) \in Int
    <3>1. Joins(A, B, K, e, F, f, g)
      BY <2>5, <2>6, <2>8, <2>9, <2>10, <2>11 DEF Joins
    <3> QED
      BY <3>1, SumJoined
  <2>13. /\ SumFunction(H) = SumFunction(h) + SumFunction(i)
         /\ SumFunction(h) \in Int /\ SumFunction(i) \in Int
    <3>1. Joins(A, B, K, e, H, h, i)
      BY <2>5, <2>6, <2>8, <2>9, <2>10, <2>11 DEF Joins
    <3> QED
      BY <3>1, SumJoined
  <2> QED
    BY <2>3, <2>4, <2>12, <2>13
<1> QED
  BY <1>6, <1>8

-----------------------------------------------------------------------------
(* What the books say of the inventory.                                    *)

EntriesInv == \A j \in journals : j.entry["inventory"] \in Int

LEMMA InventoryApart ==
  /\ "inventory" \in Accounts
  /\ \A a \in CashAccounts : a # "inventory"
  BY RetailAssumption DEF Accounts, ControlAccounts

\* A journal adds its entry to the inventory account.
LEMMA InventoryPosted ==
  ASSUME JournalInv, EntriesInv, NEW kind, NEW id, NEW d, NEW lines, Unposted(kind, id),
         journals' = journals \cup {Posting(kind, id, d, lines)}, Entry(lines)["inventory"] \in Int
  PROVE  /\ EntriesInv' /\ Balance("inventory") \in Int
         /\ Balance("inventory")' = Balance("inventory") + Entry(lines)["inventory"]
         /\ \A s : kind # "stocktake" /\ Unposted("stocktake", s) => Unposted("stocktake", s)'
         /\ \A s : id # s /\ Unposted("stocktake", s) => Unposted("stocktake", s)'
<1> DEFINE j == Posting(kind, id, d, lines)
           a == "inventory"
<1>1. j.source = <<kind, id>> /\ j.entry = Entry(lines)
  BY DEF Posting
<1> HIDE DEF j, a
<1>2. j \notin journals /\ journals' = journals \cup {j}
  BY <1>1 DEF Unposted, j
<1>3. IsFiniteSet(journals) /\ \A x \in journals \cup {j} : x.entry[a] \in Int
  BY <1>1 DEF JournalInv, EntriesInv, a
<1>4. /\ BalanceOver(journals, a) \in Int
      /\ BalanceOver(journals \cup {j}, a) = BalanceOver(journals, a) + j.entry[a]
  BY <1>2, <1>3, EntryAdded
<1>5. Balance(a) = BalanceOver(journals, a) /\ Balance(a)' = BalanceOver(journals \cup {j}, a)
  BY <1>2 DEF Balance, BalanceOver, a
<1>6. EntriesInv'
  BY <1>2, <1>3 DEF EntriesInv, a
<1>7. ASSUME NEW s, Unposted("stocktake", s), kind # "stocktake" \/ id # s
      PROVE  Unposted("stocktake", s)'
  BY <1>1, <1>2, <1>7 DEF Unposted
<1> QED
  BY <1>1, <1>4, <1>5, <1>6, <1>7 DEF a

\* The books leave the goods aside.
BooksAside ==
  /\ EntriesInv'
  /\ Balance("inventory")' = Balance("inventory")
  /\ \A s : Unposted("stocktake", s) => Unposted("stocktake", s)'

LEMMA AsideJournal ==
  ASSUME JournalInv, EntriesInv, NEW kind, kind # "stocktake", NEW id, NEW d, NEW lines,
         Journal(kind, id, d, lines), \A m \in DOMAIN lines : lines[m].account # "inventory"
  PROVE  BooksAside
<1>1. Entry(lines)["inventory"] = 0
  BY InventoryApart, EntryOfNone
<1>2. Unposted(kind, id) /\ journals' = journals \cup {Posting(kind, id, d, lines)}
  BY DEF Journal
<1>3. /\ EntriesInv' /\ Balance("inventory") \in Int
      /\ Balance("inventory")' = Balance("inventory") + Entry(lines)["inventory"]
      /\ \A s : kind # "stocktake" /\ Unposted("stocktake", s) => Unposted("stocktake", s)'
  BY <1>1, <1>2, InventoryPosted
<1> QED
  BY <1>1, <1>3 DEF BooksAside

LEMMA AsideKept ==
  ASSUME EntriesInv, UNCHANGED journals
  PROVE  BooksAside
  BY DEF EntriesInv, BooksAside, Balance, Unposted

LEMMA TwoAside ==
  ASSUME NEW x, NEW y, NEW n, NEW m, x # "inventory", y # "inventory"
  PROVE  \A k \in DOMAIN <<Line(x, n), Line(y, m)>> : <<Line(x, n), Line(y, m)>>[k].account # "inventory"
  BY DEF Line

\* Money that comes, goes and moves, with the journal of the command.
MoneyCommand ==
  \/ \E d \in Dates : PostTransaction(d)
  \/ \E d \in Dates, e \in ExpenseIds, income \in BOOLEAN, account \in CashAccounts, n \in CashAmounts :
       PostExpense(e, income, account, n, d)
  \/ \E d \in Dates, c \in ChequeIds, direction \in {"inbound", "outbound"}, n \in CashAmounts :
       PostCheque(c, direction, n, d)
  \/ \E d \in Dates, c \in ChequeIds, status \in {"cleared", "bounced", "returned", "spent"},
        account \in CashAccounts : ChangeChequeStatus(c, status, account, d)

LEMMA MoneyAside ==
  ASSUME JournalInv, EntriesInv, MoneyCommand
  PROVE  BooksAside /\ UNCHANGED <<stock, movements, stocktakes, closed>>
<1>1. ASSUME NEW kind, kind # "stocktake", NEW id, NEW d, NEW x, NEW n, NEW y, NEW m,
             x # "inventory", y # "inventory", Journal(kind, id, d, <<Line(x, n), Line(y, m)>>)
      PROVE  BooksAside
  <2> DEFINE lines == <<Line(x, n), Line(y, m)>>
  <2>1. \A k \in DOMAIN lines : lines[k].account # "inventory"
    BY <1>1, TwoAside
  <2> HIDE DEF lines
  <2> QED
    BY <1>1, <2>1, AsideJournal DEF lines
<1>2. ASSUME NEW id, NEW d, NEW type, NEW account \in CashAccounts,
             NEW other, other # "inventory", NEW n, Journal("treasury", id, d, CashLines(type, account, other, n))
      PROVE  BooksAside
  <2>1. account # "inventory"
    BY InventoryApart
  <2>2. \/ Journal("treasury", id, d, <<Line(account, n), Line(other, -n)>>)
        \/ Journal("treasury", id, d, <<Line(other, n), Line(account, -n)>>)
    BY <1>2 DEF CashLines
  <2> QED
    BY <1>1, <1>2, <2>1, <2>2
<1>3. ASSUME NEW d \in Dates, PostTransaction(d)
      PROVE  BooksAside /\ UNCHANGED <<stock, movements, stocktakes, closed>>
  <2>1. ASSUME NEW n, NEW account \in CashAccounts, NEW type, NEW i, SettleInvoice(i, type, account, n, d)
        PROVE  BooksAside /\ UNCHANGED <<stock, movements, stocktakes, closed>>
    <3>1. /\ Journal("treasury", NextTx, d, CashLines(type, account, ControlAccount(invoices[i].kind), n))
          /\ UNCHANGED <<stock, movements, stocktakes, closed>>
      BY <2>1 DEF SettleInvoice, goods
    <3>2. ControlAccount(invoices[i].kind) # "inventory"
      BY DEF ControlAccount
    <3> QED
      BY <1>2, <3>1, <3>2
  <2>2. ASSUME NEW n, NEW account \in CashAccounts, NEW type, CashOnAccount(type, account, n, d)
        PROVE  BooksAside /\ UNCHANGED <<stock, movements, stocktakes, closed>>
    <3> DEFINE other == IF type = "receipt" THEN "receivable" ELSE "payable"
    <3>1. /\ Journal("treasury", NextTx, d, CashLines(type, account, other, n))
          /\ UNCHANGED <<stock, movements, stocktakes, closed>>
      BY <2>2 DEF CashOnAccount, goods
    <3>2. other # "inventory"
      OBVIOUS
    <3> HIDE DEF other
    <3> QED
      BY <1>2, <3>1, <3>2
  <2>3. ASSUME NEW n, NEW from \in CashAccounts, NEW to \in CashAccounts, TransferCash(from, to, n, d)
        PROVE  BooksAside /\ UNCHANGED <<stock, movements, stocktakes, closed>>
    <3>1. /\ Journal("treasury", NextTx, d, <<Line(to, n), Line(from, -n)>>)
          /\ UNCHANGED <<stock, movements, stocktakes, closed>>
      BY <2>3 DEF TransferCash, goods
    <3>2. from # "inventory" /\ to # "inventory"
      BY InventoryApart
    <3> QED
      BY <1>1, <3>1, <3>2
  <2> QED
    BY <1>3, <2>1, <2>2, <2>3 DEF PostTransaction
<1>4. ASSUME NEW d \in Dates, NEW e, NEW income, NEW account \in CashAccounts, NEW n,
             PostExpense(e, income, account, n, d)
      PROVE  BooksAside /\ UNCHANGED <<stock, movements, stocktakes, closed>>
  <2>1. /\ \/ Journal("expense", e, d, <<Line(account, n), Line("otherRevenue", -n)>>)
           \/ Journal("expense", e, d, <<Line("expense", n), Line(account, -n)>>)
        /\ UNCHANGED <<stock, movements, stocktakes, closed>>
    BY <1>4 DEF PostExpense, goods
  <2>2. account # "inventory"
    BY InventoryApart
  <2> QED
    BY <1>1, <2>1, <2>2
<1>5. ASSUME NEW d \in Dates, NEW c, NEW direction, NEW n, PostCheque(c, direction, n, d)
      PROVE  BooksAside /\ UNCHANGED <<stock, movements, stocktakes, closed>>
  <2>1. /\ \/ Journal("cheque", c, d, <<Line("chequeIn", n), Line("receivable", -n)>>)
           \/ Journal("cheque", c, d, <<Line("payable", n), Line("chequeOut", -n)>>)
        /\ UNCHANGED <<stock, movements, stocktakes, closed>>
    BY <1>5 DEF PostCheque, goods
  <2> QED
    BY <1>1, <2>1
<1>6. ASSUME NEW d \in Dates, NEW c, NEW status, NEW account \in CashAccounts,
             ChangeChequeStatus(c, status, account, d)
      PROVE  BooksAside /\ UNCHANGED <<stock, movements, stocktakes, closed>>
  <2> DEFINE target == ChequeTarget(c, status, account)
             n == cheques[c].amount
  <2>1. /\ \/ Journal("cheque_status", c, d, <<Line(target, n), Line("chequeIn", -n)>>)
           \/ Journal("cheque_status", c, d, <<Line("chequeOut", n), Line(target, -n)>>)
        /\ UNCHANGED <<stock, movements, stocktakes, closed>>
    BY <1>6 DEF ChangeChequeStatus, goods
  <2>2. target # "inventory"
    BY InventoryApart DEF ChequeTarget
  <2> HIDE DEF target, n
  <2> QED
    BY <1>1, <2>1, <2>2
<1> QED
  BY <1>3, <1>4, <1>5, <1>6 DEF MoneyCommand

\* What the journal of an invoice says of the inventory.
InventoryShare(form, net, cost) ==
  CASE form.kind = "purchase" -> NetUpTo(net, form.items, Len(form.items))
    [] form.kind = "sale_return" -> cost
    [] OTHER -> -cost

LEMMA TrackedNet ==
  ASSUME NEW form \in InvoiceForms, NEW net, DOMAIN net = DOMAIN form.items,
         \A k \in DOMAIN form.items : net[k] \in Int
  PROVE  /\ SumFunction(net)
              - SumFunction([k \in {k \in DOMAIN net : form.items[k].item \in Services} |-> net[k]])
            = NetUpTo(net, form.items, Len(form.items))
         /\ NetUpTo(net, form.items, Len(form.items)) \in Int
<1> DEFINE A == {k \in 1 .. Len(form.items) : form.items[k].item \notin Services}
           B == {k \in DOMAIN net : form.items[k].item \in Services}
           f == [k \in A |-> net[k]]
           g == [k \in B |-> net[k]]
<1>1. DOMAIN form.items = 1 .. Len(form.items) /\ IsFiniteSet(DOMAIN form.items)
  BY FormItems, FS_Interval
<1>2. A \subseteq DOMAIN net /\ B \subseteq DOMAIN net /\ A \cap B = {} /\ DOMAIN net = A \cup B
  BY <1>1
<1>3. IsFiniteSet(A) /\ IsFiniteSet(B)
  BY <1>1, <1>2, FS_Subset
<1>4. f = On(net, A) /\ g = On(net, B)
  BY DEF On
<1>5. DOMAIN f = A /\ DOMAIN g = B /\ (\A x \in A : f[x] \in Int) /\ (\A x \in B : g[x] \in Int)
  BY <1>2
<1>6. NetUpTo(net, form.items, Len(form.items)) = SumFunction(f)
  BY DEF NetUpTo
<1> HIDE DEF A, f, g
<1>7. SumFunction(net) = SumFunction(f) + SumFunction(g)
  <2>1. \A x \in A \cup B : net[x] \in Int
    BY <1>2
  <2> HIDE DEF B
  <2> QED
    BY <1>2, <1>3, <1>4, <2>1, SumSplits
<1>8. SumFunction(f) \in Int /\ SumFunction(g) \in Int
  BY <1>3, <1>5, SumInt
<1> QED
  BY <1>6, <1>7, <1>8 DEF g

LEMMA InventoryEntry ==
  ASSUME NEW form \in InvoiceForms, NEW net, DOMAIN net = DOMAIN form.items,
         \A k \in DOMAIN form.items : net[k] \in Int, NEW cost \in Int
  PROVE  /\ Entry(InvoiceLines(form, net, cost))["inventory"] = InventoryShare(form, net, cost)
         /\ InventoryShare(form, net, cost) \in Int
<1> DEFINE lines == InvoiceLines(form, net, cost)
           serviceNet == SumFunction([k \in {k \in DOMAIN net : form.items[k].item \in Services} |-> net[k]])
           trackedNet == SumFunction(net) - serviceNet
<1>1. form.kind \in {"sale", "non_formal", "purchase", "sale_return", "purchase_return"}
  BY FormGrand DEF OriginalKinds, ReturnKinds
<1>2. trackedNet = NetUpTo(net, form.items, Len(form.items)) /\ trackedNet \in Int
  BY TrackedNet
<1>3. InventoryShare(form, net, cost) \in Int
  BY <1>1, <1>2 DEF InventoryShare
<1>4. \E k \in DOMAIN lines :
        /\ lines[k].account = "inventory" /\ lines[k].amount = InventoryShare(form, net, cost)
        /\ \A m \in DOMAIN lines : m # k => lines[m].account # "inventory"
  <2>1. CASE form.kind \in {"sale", "non_formal"}
    <3>1. /\ DOMAIN lines = 1 .. 5 /\ lines[5].account = "inventory" /\ lines[5].amount = -cost
          /\ lines[1].account = "receivable" /\ lines[2].account = "revenue"
          /\ lines[3].account = "outputVat" /\ lines[4].account = "cogs"
      BY <2>1 DEF InvoiceLines, Line
    <3> HIDE DEF lines
    <3>2. \A m \in DOMAIN lines : m # 5 => lines[m].account # "inventory"
      BY <3>1
    <3> QED
      BY <2>1, <3>1, <3>2 DEF InventoryShare
  <2>2. CASE form.kind = "purchase"
    <3>1. /\ DOMAIN lines = 1 .. 4 /\ lines[1].account = "inventory" /\ lines[1].amount = trackedNet
          /\ lines[2].account = "expense" /\ lines[3].account = "inputVat" /\ lines[4].account = "payable"
      BY <2>2 DEF InvoiceLines, Line
    <3> HIDE DEF lines, trackedNet
    <3>2. \A m \in DOMAIN lines : m # 1 => lines[m].account # "inventory"
      BY <3>1
    <3> QED
      BY <1>2, <2>2, <3>1, <3>2 DEF InventoryShare
  <2>3. CASE form.kind = "sale_return"
    <3>1. /\ DOMAIN lines = 1 .. 5 /\ lines[4].account = "inventory" /\ lines[4].amount = cost
          /\ lines[1].account = "revenue" /\ lines[2].account = "outputVat"
          /\ lines[3].account = "receivable" /\ lines[5].account = "cogs"
      BY <2>3 DEF InvoiceLines, Line
    <3> HIDE DEF lines
    <3>2. \A m \in DOMAIN lines : m # 4 => lines[m].account # "inventory"
      BY <3>1
    <3> QED
      BY <2>3, <3>1, <3>2 DEF InventoryShare
  <2>4. CASE form.kind = "purchase_return"
    <3>1. /\ DOMAIN lines = 1 .. 5 /\ lines[2].account = "inventory" /\ lines[2].amount = -cost
          /\ lines[1].account = "payable" /\ lines[3].account = "expense"
          /\ lines[4].account = "inputVat" /\ lines[5].account = "variance"
      BY <2>4 DEF InvoiceLines, Line
    <3> HIDE DEF lines
    <3>2. \A m \in DOMAIN lines : m # 2 => lines[m].account # "inventory"
      BY <3>1
    <3> QED
      BY <2>4, <3>1, <3>2 DEF InventoryShare
  <2> QED
    BY <1>1, <2>1, <2>2, <2>3, <2>4
<1> HIDE DEF lines
<1>5. PICK k \in DOMAIN lines :
        /\ lines[k].account = "inventory" /\ lines[k].amount = InventoryShare(form, net, cost)
        /\ \A m \in DOMAIN lines : m # k => lines[m].account # "inventory"
  BY <1>4
<1>6. {m \in DOMAIN lines : lines[m].account = "inventory"} = {k}
  BY <1>5
<1>7. Entry(lines)["inventory"] = lines[k].amount
  BY <1>3, <1>5, <1>6, InventoryApart, EntryOfOne
<1> QED
  BY <1>3, <1>5, <1>7 DEF lines

\* An invoice posts its share of the inventory once, its down payment none.
LEMMA InvoicePosted ==
  ASSUME Listed, JournalInv, EntriesInv, NEW i, NEW d, NEW lines, NEW cash, Unposted("invoice", i),
         \/ journals' = journals \cup {Posting("invoice", i, d, lines)}
         \/ journals' = journals \cup {Posting("invoice", i, d, lines),
                                       Posting("treasury", NextTx, d, cash)},
         Entry(lines)["inventory"] \in Int, Entry(cash)["inventory"] = 0
  PROVE  /\ EntriesInv' /\ Balance("inventory") \in Int
         /\ Balance("inventory")' = Balance("inventory") + Entry(lines)["inventory"]
         /\ \A s : Unposted("stocktake", s) => Unposted("stocktake", s)'
<1>1. CASE journals' = journals \cup {Posting("invoice", i, d, lines)}
  <2>1. /\ EntriesInv' /\ Balance("inventory") \in Int
        /\ Balance("inventory")' = Balance("inventory") + Entry(lines)["inventory"]
        /\ \A s : "invoice" # "stocktake" /\ Unposted("stocktake", s) => Unposted("stocktake", s)'
    BY <1>1, InventoryPosted
  <2> QED
    BY <2>1
<1>2. CASE journals' = journals \cup {Posting("invoice", i, d, lines),
                                      Posting("treasury", NextTx, d, cash)}
  <2> DEFINE j == Posting("invoice", i, d, lines)
             k == Posting("treasury", NextTx, d, cash)
             J == journals \cup {j}
             a == "inventory"
  <2>1. /\ j.source = <<"invoice", i>> /\ j.entry = Entry(lines)
        /\ k.source = <<"treasury", NextTx>> /\ k.entry = Entry(cash)
        /\ journals' = J \cup {k}
    BY <1>2 DEF Posting
  <2>2. NextTx \notin 1 .. Len(treasury)
    BY DEF Listed, NextTx
  <2> HIDE DEF j, k, a
  <2>3. j \notin journals
    BY <2>1 DEF Unposted
  <2>4. k \notin J
    <3>1. k.source[1] = "treasury" /\ k.source[2] \notin 1 .. Len(treasury) /\ k # j
      BY <2>1, <2>2
    <3> QED
      BY <3>1 DEF JournalInv
  <2>5. IsFiniteSet(journals) /\ IsFiniteSet(J)
    <3>1. IsFiniteSet(journals)
      BY DEF JournalInv
    <3> QED
      BY <3>1, FS_AddElement
  <2>6. /\ \A x \in journals \cup {j} : x.entry[a] \in Int
        /\ \A x \in J \cup {k} : x.entry[a] \in Int
    BY <2>1 DEF EntriesInv, a
  <2>7. /\ BalanceOver(journals, a) \in Int
        /\ BalanceOver(journals \cup {j}, a) = BalanceOver(journals, a) + j.entry[a]
    BY <2>3, <2>5, <2>6, EntryAdded
  <2> HIDE DEF J
  <2>8. BalanceOver(J \cup {k}, a) = BalanceOver(J, a) + k.entry[a]
    BY <2>4, <2>5, <2>6, EntryAdded
  <2>9. Balance(a) = BalanceOver(journals, a) /\ Balance(a)' = BalanceOver(J \cup {k}, a)
    BY <2>1 DEF Balance, BalanceOver, a
  <2>10. Balance(a)' = Balance(a) + Entry(lines)["inventory"] /\ Balance(a) \in Int
    BY <2>1, <2>7, <2>8, <2>9 DEF J, a
  <2>11. EntriesInv'
    BY <2>1, <2>6 DEF EntriesInv, a
  <2>12. ASSUME NEW s, Unposted("stocktake", s) PROVE Unposted("stocktake", s)'
    BY <2>1, <2>12 DEF Unposted, J
  <2> QED
    BY <2>10, <2>11, <2>12 DEF a
<1> QED
  BY <1>1, <1>2

-----------------------------------------------------------------------------
(* A command that moves goods.                                             *)

InventoryInv == Documented /\ StockTyped(stock) /\ EntriesInv /\ InventoryAgrees

\* s is the stock that the list M of movements makes of the present one.
StockAfter(s, M) ==
  /\ StockTyped(s)
  /\ \A w \in Warehouses, p \in Products :
       /\ s[w][p].units = stock[w][p].units + ListUnits(M, w, p, "in") - ListUnits(M, w, p, "out")
       /\ s[w][p].value = stock[w][p].value + ListCost(M, w, p, "in") - ListCost(M, w, p, "out")

LEMMA StockMoved ==
  ASSUME InventoryInv, NEW doc \in Documents, movements[doc] = <<>>, NEW M \in Seq(DatedRow),
         movements' = [movements EXCEPT ![doc] = M], StockAfter(stock', M),
         EntriesInv', Balance("inventory")' = Worth(stock')
  PROVE  InventoryInv'
<1>1. /\ Documented'
      /\ \A w, p, type :
           /\ UnitsMoved(MovementRows, w, p, type)' =
                UnitsMoved(MovementRows, w, p, type) + ListUnits(M, w, p, type)
           /\ ValueMoved(MovementRows, w, p, type)' =
                ValueMoved(MovementRows, w, p, type) + ListCost(M, w, p, type)
           /\ UnitsMoved(MovementRows, w, p, type) \in Int /\ ListUnits(M, w, p, type) \in Int
           /\ ValueMoved(MovementRows, w, p, type) \in Int /\ ListCost(M, w, p, type) \in Int
  BY DocumentMoved DEF InventoryInv
<1>2. ASSUME NEW w \in Warehouses, NEW p \in Products
      PROVE  /\ stock'[w][p].units = UnitsMoved(MovementRows, w, p, "in")'
                                     - UnitsMoved(MovementRows, w, p, "out")'
             /\ stock'[w][p].value = ValueMoved(MovementRows, w, p, "in")'
                                     - ValueMoved(MovementRows, w, p, "out")'
             /\ stock'[w][p].units = 0 => stock'[w][p].value = 0
  <2>1. /\ stock[w][p].units = UnitsMoved(MovementRows, w, p, "in") - UnitsMoved(MovementRows, w, p, "out")
        /\ stock[w][p].value = ValueMoved(MovementRows, w, p, "in") - ValueMoved(MovementRows, w, p, "out")
    BY DEF InventoryInv, InventoryAgrees
  <2>2. /\ stock'[w][p].units = stock[w][p].units + ListUnits(M, w, p, "in") - ListUnits(M, w, p, "out")
        /\ stock'[w][p].value = stock[w][p].value + ListCost(M, w, p, "in") - ListCost(M, w, p, "out")
        /\ stock'[w][p].units = 0 => stock'[w][p].value = 0
    BY DEF StockAfter, StockTyped
  <2>3. \A type : /\ UnitsMoved(MovementRows, w, p, type)' =
                       UnitsMoved(MovementRows, w, p, type) + ListUnits(M, w, p, type)
                  /\ UnitsMoved(MovementRows, w, p, type) \in Int /\ ListUnits(M, w, p, type) \in Int
    BY <1>1
  <2>4. \A type : /\ ValueMoved(MovementRows, w, p, type)' =
                       ValueMoved(MovementRows, w, p, type) + ListCost(M, w, p, type)
                  /\ ValueMoved(MovementRows, w, p, type) \in Int /\ ListCost(M, w, p, type) \in Int
    BY <1>1
  <2>5. stock'[w][p].units = UnitsMoved(MovementRows, w, p, "in")' - UnitsMoved(MovementRows, w, p, "out")'
    BY <2>1, <2>2, <2>3
  <2>6. stock'[w][p].value = ValueMoved(MovementRows, w, p, "in")' - ValueMoved(MovementRows, w, p, "out")'
    BY <2>1, <2>2, <2>4
  <2> QED
    BY <2>2, <2>5, <2>6
<1>3. InventoryAgrees'
  BY <1>2 DEF InventoryAgrees, Worth
<1> QED
  BY <1>1, <1>3 DEF InventoryInv, StockAfter

\* What the date adds to a list of movements: nothing but the date.
LEMMA DatedMoves ==
  ASSUME NEW moves \in Seq(MoveRow), NEW d \in Dates
  PROVE  /\ Dated(moves, d) \in Seq(DatedRow)
         /\ \A p : /\ MovedUnits(Dated(moves, d), p) = MovedUnits(moves, p)
                   /\ MovedCost(Dated(moves, d), p) = MovedCost(moves, p)
         /\ \A w, p, type : /\ ListUnits(Dated(moves, d), w, p, type) = ListUnits(moves, w, p, type)
                            /\ ListCost(Dated(moves, d), w, p, type) = ListCost(moves, w, p, type)
<1> DEFINE M == Dated(moves, d)
<1>1. /\ DOMAIN moves = 1 .. Len(moves) /\ Len(moves) \in Nat
      /\ \A k \in DOMAIN moves : moves[k] \in MoveRow
  OBVIOUS
<1>2. /\ DOMAIN M = DOMAIN moves
      /\ \A k \in DOMAIN moves :
           M[k] = [type |-> moves[k].type, warehouse |-> moves[k].warehouse,
                   product |-> moves[k].product, units |-> moves[k].units,
                   cost |-> moves[k].cost, date |-> d]
      /\ M = [k \in 1 .. Len(moves) |-> M[k]]
  BY <1>1 DEF Dated
<1> HIDE DEF M
<1>3. ASSUME NEW k \in DOMAIN moves
      PROVE  /\ M[k].type = moves[k].type /\ M[k].warehouse = moves[k].warehouse
             /\ M[k].product = moves[k].product /\ M[k].units = moves[k].units
             /\ M[k].cost = moves[k].cost
  <2>1. M[k] = [type |-> moves[k].type, warehouse |-> moves[k].warehouse,
                product |-> moves[k].product, units |-> moves[k].units,
                cost |-> moves[k].cost, date |-> d]
    BY <1>2
  <2> DEFINE row == M[k]
  <2>2. row = [type |-> moves[k].type, warehouse |-> moves[k].warehouse,
               product |-> moves[k].product, units |-> moves[k].units,
               cost |-> moves[k].cost, date |-> d]
    BY <2>1
  <2> HIDE DEF row
  <2>3. /\ row.type = moves[k].type /\ row.warehouse = moves[k].warehouse
        /\ row.product = moves[k].product /\ row.units = moves[k].units
        /\ row.cost = moves[k].cost
    BY <2>2
  <2> QED
    BY <2>3 DEF row
<1>4. ASSUME NEW k \in DOMAIN moves PROVE M[k] \in DatedRow
  BY <1>1, <1>2 DEF MoveRow, DatedRow
<1>5. M \in Seq(DatedRow)
  <2> DEFINE n == Len(moves)
  <2>1. n \in Nat /\ M = [k \in 1 .. n |-> M[k]] /\ \A k \in 1 .. n : M[k] \in DatedRow
    BY <1>1, <1>2, <1>4
  <2> HIDE DEF n
  <2>2. [k \in 1 .. n |-> M[k]] \in Seq(DatedRow)
    BY <2>1
  <2> QED
    BY <2>1, <2>2
<1>6. ASSUME NEW K \in SUBSET DOMAIN moves
      PROVE  /\ [k \in K |-> M[k].units] = [k \in K |-> moves[k].units]
             /\ [k \in K |-> M[k].cost] = [k \in K |-> moves[k].cost]
  BY <1>3
<1>7. ASSUME NEW p
      PROVE  MovedUnits(M, p) = MovedUnits(moves, p) /\ MovedCost(M, p) = MovedCost(moves, p)
  <2>1. MovesOf(M, p) = MovesOf(moves, p) /\ MovesOf(moves, p) \in SUBSET DOMAIN moves
    BY <1>2, <1>3 DEF MovesOf
  <2> QED
    BY <1>6, <2>1 DEF MovedUnits, MovedCost
<1>8. ASSUME NEW w, NEW p, NEW type
      PROVE  /\ ListUnits(M, w, p, type) = ListUnits(moves, w, p, type)
             /\ ListCost(M, w, p, type) = ListCost(moves, w, p, type)
  <2>1. ListOf(M, w, p, type) = ListOf(moves, w, p, type) /\ ListOf(moves, w, p, type) \in SUBSET DOMAIN moves
    BY <1>2, <1>3 DEF ListOf
  <2> QED
    BY <1>6, <2>1 DEF ListUnits, ListCost
<1> QED
  BY <1>5, <1>7, <1>8 DEF M

\* Movements of one warehouse in one direction.
OnlyWay(moves, w, dir) ==
  \A k \in DOMAIN moves : moves[k].warehouse = w /\ moves[k].type = dir

LEMMA OneWay ==
  ASSUME NEW moves, NEW w, NEW dir, OnlyWay(moves, w, dir), NEW v, NEW p, NEW type
  PROVE  /\ ListUnits(moves, v, p, type) = IF v = w /\ type = dir THEN MovedUnits(moves, p) ELSE 0
         /\ ListCost(moves, v, p, type) = IF v = w /\ type = dir THEN MovedCost(moves, p) ELSE 0
<1>1. CASE v = w /\ type = dir
  <2>1. ListOf(moves, v, p, type) = MovesOf(moves, p)
    BY <1>1 DEF ListOf, MovesOf, OnlyWay
  <2> QED
    BY <1>1, <2>1 DEF ListUnits, ListCost, MovedUnits, MovedCost
<1>2. CASE ~(v = w /\ type = dir)
  <2>1. ListOf(moves, v, p, type) = {}
    BY <1>2 DEF ListOf, OnlyWay
  <2> DEFINE f == [k \in ListOf(moves, v, p, type) |-> moves[k].units]
             g == [k \in ListOf(moves, v, p, type) |-> moves[k].cost]
  <2>2. /\ ListUnits(moves, v, p, type) = SumFunction(f) /\ ListCost(moves, v, p, type) = SumFunction(g)
        /\ DOMAIN f = {} /\ DOMAIN g = {}
    BY <2>1 DEF ListUnits, ListCost
  <2> HIDE DEF f, g
  <2>3. SumFunction(f) = 0 /\ SumFunction(g) = 0
    BY <2>2, SumNothing
  <2> QED
    BY <1>2, <2>2, <2>3
<1> QED
  BY <1>1, <1>2

LEMMA WorthInt ==
  ASSUME NEW s, StockTyped(s)
  PROVE  Worth(s) \in Int
<1> DEFINE S == Warehouses \X Products
           f == [wp \in S |-> s[wp[1]][wp[2]].value]
<1>1. \A x \in Stock : x.value \in Int
  BY DEF Stock
<1>2. DOMAIN f = S /\ \A x \in S : f[x] \in Int
  BY <1>1 DEF StockTyped
<1>3. Worth(s) = SumFunction(f) /\ IsFiniteSet(S)
  BY PlacesFinite DEF Worth
<1> HIDE DEF f, S
<1> QED
  BY <1>2, <1>3, SumInt

-----------------------------------------------------------------------------
(* What came back of a sale.                                               *)

\* The units that left or came back with an invoice are those of its lines.
ItemsMoved ==
  \A i \in InvoiceIds, p \in Products : MovedUnits(movements[i], p) = Units(invoices[i].items, p)

LEMMA MovesOfInvoice ==
  ASSUME Documented, NEW i \in InvoiceIds
  PROVE  \A p : MovedUnits(movements[i], p) \in Nat /\ MovedCost(movements[i], p) \in Nat
<1>1. movements[i] \in Seq(DatedRow)
  BY DEF Documented, Documents
<1>2. MoveList(movements[i])
  BY <1>1, DatedRows
<1> QED
  BY <1>2, MoveSums

LEMMA SumsAreKnown ==
  ASSUME InvoiceInv, Documented, ItemsMoved
  PROVE  \A o \in InvoiceIds : SumsKnown(o)
<1> SUFFICES ASSUME NEW o \in InvoiceIds, NEW p \in Products
             PROVE  ReturnedUnits(o, p) \in Nat /\ RestockedCost(o, p) \in Nat
  BY MovesOfInvoice DEF SumsKnown
<1> DEFINE A == Returns(o)
           f == [r \in A |-> Units(invoices[r].items, p)]
           g == [r \in A |-> MovedCost(movements[r], p)]
<1>1. A \subseteq InvoiceIds /\ IsFiniteSet(A)
  BY ReturnSums DEF Returns
<1>2. \A r \in A : Units(invoices[r].items, p) \in Nat /\ MovedCost(movements[r], p) \in Nat
  BY <1>1, MovesOfInvoice DEF ItemsMoved
<1>3. DOMAIN f = A /\ DOMAIN g = A /\ \A r \in A : f[r] \in Nat /\ g[r] \in Nat
  BY <1>2
<1>4. ReturnedUnits(o, p) = SumFunction(f) /\ RestockedCost(o, p) = SumFunction(g)
  BY DEF ReturnedUnits, RestockedCost
<1> HIDE DEF f, g, A
<1> QED
  BY <1>1, <1>3, <1>4, SumNat

\* A return adds what it brings to what came back of its original.
LEMMA ReturnedAfter ==
  ASSUME InvoiceInv, Documented, ItemsMoved, NEW i \in InvoiceIds, NEW form \in InvoiceForms,
         NEW o \in InvoiceIds \cup {None}, NEW w \in Warehouses, NEW d \in Dates,
         Issues(i, form, o, w, d), NEW M \in Seq(DatedRow), movements' = [movements EXCEPT ![i] = M],
         NEW p \in Products, MovedUnits(M, p) = Units(form.items, p), NEW q \in InvoiceIds
  PROVE  LET its == form.kind \in ReturnKinds /\ q = o
         IN  /\ ReturnedUnits(q, p)' = ReturnedUnits(q, p) + IF its THEN MovedUnits(M, p) ELSE 0
             /\ RestockedCost(q, p)' = RestockedCost(q, p) + IF its THEN MovedCost(M, p) ELSE 0
             /\ ReturnedUnits(q, p) \in Nat /\ RestockedCost(q, p) \in Nat
<1> DEFINE its == form.kind \in ReturnKinds /\ q = o
           A == Returns(q)
           B == Returns(q)'
           f == [r \in A |-> Units(invoices[r].items, p)]
           g == [r \in B |-> Units(invoices'[r].items, p)]
           u == [r \in A |-> MovedCost(movements[r], p)]
           v == [r \in B |-> MovedCost(movements'[r], p)]
<1>1. /\ InvoiceInv' /\ i \notin Issued
      /\ invoices'[i].kind = form.kind /\ invoices'[i].orig = o
      /\ \A b \in InvoiceIds \ {i} : invoices'[b] = invoices[b]
  BY IssuesKeeps
<1>2. invoices'[i].items = form.items
  BY DEF Issues, InvoiceInv
<1>3. movements'[i] = M /\ \A b \in InvoiceIds \ {i} : movements'[b] = movements[b]
  BY DEF Documented, Documents
<1>4. IsFiniteSet(A) /\ A \subseteq Issued
  BY ReturnSums
<1>5. A \subseteq InvoiceIds /\ B \subseteq InvoiceIds /\ i \notin A /\ B \ {i} = A /\ (i \in B <=> its)
  BY <1>1, <1>4 DEF Returns
<1>6. MovedUnits(M, p) \in Nat /\ MovedCost(M, p) \in Nat
  BY DatedRows, MoveSums
<1>7. \A r \in A : Units(invoices[r].items, p) \in Nat /\ MovedCost(movements[r], p) \in Nat
  BY <1>5, MovesOfInvoice DEF ItemsMoved
<1>8. /\ DOMAIN f = A /\ DOMAIN g = B /\ DOMAIN u = A /\ DOMAIN v = B
      /\ \A r \in A : f[r] \in Int /\ u[r] \in Int
      /\ \A r \in A : g[r] = f[r] /\ v[r] = u[r]
      /\ i \in B => g[i] = MovedUnits(M, p) /\ v[i] = MovedCost(M, p)
  BY <1>1, <1>2, <1>3, <1>5, <1>7
<1>9. /\ ReturnedUnits(q, p) = SumFunction(f) /\ ReturnedUnits(q, p)' = SumFunction(g)
      /\ RestockedCost(q, p) = SumFunction(u) /\ RestockedCost(q, p)' = SumFunction(v)
  BY DEF ReturnedUnits, RestockedCost
<1>10. ReturnedUnits(q, p) \in Nat /\ RestockedCost(q, p) \in Nat
  BY SumsAreKnown DEF SumsKnown
<1> HIDE DEF f, g, u, v, A, B
<1>11. B = A \/ B = A \cup {i}
  BY <1>5
<1>12. /\ IsFiniteSet(DOMAIN f) /\ i \notin DOMAIN f
       /\ DOMAIN g = DOMAIN f \/ DOMAIN g = DOMAIN f \cup {i}
       /\ \A y \in DOMAIN f : f[y] \in Int /\ g[y] = f[y]
       /\ i \in DOMAIN g => g[i] \in Int
  <2>1. i \in B => g[i] \in Int
    BY <1>6, <1>8
  <2> QED
    BY <1>4, <1>5, <1>8, <1>11, <2>1
<1>13. /\ IsFiniteSet(DOMAIN u) /\ i \notin DOMAIN u
       /\ DOMAIN v = DOMAIN u \/ DOMAIN v = DOMAIN u \cup {i}
       /\ \A y \in DOMAIN u : u[y] \in Int /\ v[y] = u[y]
       /\ i \in DOMAIN v => v[i] \in Int
  <2>1. i \in B => v[i] \in Int
    BY <1>6, <1>8
  <2> QED
    BY <1>4, <1>5, <1>8, <1>11, <2>1
<1>14. SumFunction(g) = SumFunction(f) + ValueAt(g, i)
  BY <1>12, SumGrown
<1>15. SumFunction(v) = SumFunction(u) + ValueAt(v, i)
  BY <1>13, SumGrown
<1>16. /\ ValueAt(g, i) = IF its THEN MovedUnits(M, p) ELSE 0
       /\ ValueAt(v, i) = IF its THEN MovedCost(M, p) ELSE 0
  BY <1>5, <1>8 DEF ValueAt
<1> QED
  BY <1>9, <1>10, <1>14, <1>15, <1>16

\* What an issued invoice must have booked for the costs to come back.
Restores(form, o, M) ==
  \A p \in Products :
    /\ MovedUnits(M, p) = Units(form.items, p)
    /\ MovedUnits(M, p) = 0 => MovedCost(M, p) = 0
    /\ form.kind = "sale_return" /\ MovedUnits(M, p) > 0
       /\ ReturnedUnits(o, p) + MovedUnits(M, p) = MovedUnits(movements[o], p)
       => RestockedCost(o, p) + MovedCost(M, p) = MovedCost(movements[o], p)

LEMMA IssueRestores ==
  ASSUME InvoiceInv, Documented, ItemsMoved, FullReturnRestoresCost,
         NEW i \in InvoiceIds, NEW form \in InvoiceForms,
         NEW o \in InvoiceIds \cup {None}, NEW w \in Warehouses, NEW d \in Dates,
         Issues(i, form, o, w, d), NEW M \in Seq(DatedRow), movements' = [movements EXCEPT ![i] = M],
         Restores(form, o, M)
  PROVE  ItemsMoved' /\ FullReturnRestoresCost'
<1>1. /\ InvoiceInv' /\ i \notin Issued
      /\ invoices'[i].kind = form.kind /\ invoices'[i].orig = o
      /\ \A b \in InvoiceIds \ {i} : invoices'[b] = invoices[b]
  BY IssuesKeeps
<1>2. invoices'[i].items = form.items
  BY DEF Issues, InvoiceInv
<1>3. movements'[i] = M /\ \A b \in InvoiceIds \ {i} : movements'[b] = movements[b]
  BY DEF Documented, Documents
<1>4. ItemsMoved'
  <2> SUFFICES ASSUME NEW b \in InvoiceIds, NEW p \in Products
               PROVE  MovedUnits(movements'[b], p) = Units(invoices'[b].items, p)
    BY DEF ItemsMoved
  <2>1. CASE b = i
    BY <1>2, <1>3, <2>1 DEF Restores
  <2>2. CASE b # i
    BY <1>1, <1>3, <2>2 DEF ItemsMoved
  <2> QED
    BY <2>1, <2>2
<1>5. ASSUME NEW q \in InvoiceIds, NEW p \in Products,
             invoices'[q].kind \in {"sale", "non_formal"}, MovedUnits(movements'[q], p) > 0,
             ReturnedUnits(q, p)' = MovedUnits(movements'[q], p)
      PROVE  RestockedCost(q, p)' = MovedCost(movements'[q], p)
  <2> DEFINE its == form.kind \in ReturnKinds /\ q = o
  <2>1. MovedUnits(M, p) \in Nat /\ MovedCost(M, p) \in Nat
    BY DatedRows, MoveSums
  <2>2. /\ ReturnedUnits(q, p)' = ReturnedUnits(q, p) + IF its THEN MovedUnits(M, p) ELSE 0
        /\ RestockedCost(q, p)' = RestockedCost(q, p) + IF its THEN MovedCost(M, p) ELSE 0
        /\ ReturnedUnits(q, p) \in Nat /\ RestockedCost(q, p) \in Nat
    <3>1. MovedUnits(M, p) = Units(form.items, p)
      BY DEF Restores
    <3> QED
      BY <3>1, ReturnedAfter
  <2>3. CASE q = i
    <3>1. Returns(q) = {}
      <4>1. \A r \in InvoiceIds : invoices[r].kind \in ReturnKinds => invoices[r].orig # i
        BY <1>1 DEF InvoiceInv, Issued, OriginalKinds
      <4> QED
        BY <2>3, <4>1 DEF Returns
    <3>2. ReturnedUnits(q, p) = 0
      <4> DEFINE f == [r \in Returns(q) |-> Units(invoices[r].items, p)]
      <4>1. DOMAIN f = {} /\ ReturnedUnits(q, p) = SumFunction(f)
        BY <3>1 DEF ReturnedUnits
      <4> HIDE DEF f
      <4> QED
        BY <4>1, SumNothing
    <3>3. ~its
      BY <1>1, <1>5, <2>3 DEF ReturnKinds
    <3> QED
      BY <1>5, <2>2, <3>2, <3>3
  <2>4. CASE q # i
    <3>1. invoices[q].kind \in {"sale", "non_formal"} /\ movements'[q] = movements[q]
      BY <1>1, <1>3, <1>5, <2>4
    <3>2. ReturnedUnits(q, p) = MovedUnits(movements[q], p) =>
            RestockedCost(q, p) = MovedCost(movements[q], p)
      BY <1>5, <3>1 DEF FullReturnRestoresCost, SoldOf
    <3>3. CASE ~its
      BY <1>5, <2>2, <3>1, <3>2, <3>3
    <3>4. CASE its /\ MovedUnits(M, p) = 0
      <4>1. MovedCost(M, p) = 0
        BY <3>4 DEF Restores
      <4> QED
        BY <1>5, <2>1, <2>2, <3>1, <3>2, <3>4, <4>1
    <3>5. CASE its /\ MovedUnits(M, p) > 0
      <4>1. form.kind = "sale_return"
        BY <3>1, <3>5 DEF Issues, ReturnAllowed, ValidOriginals
      <4>2. ReturnedUnits(o, p) + MovedUnits(M, p) = MovedUnits(movements[o], p)
        BY <1>5, <2>2, <3>1, <3>5
      <4>3. RestockedCost(o, p) + MovedCost(M, p) = MovedCost(movements[o], p)
        BY <3>5, <4>1, <4>2 DEF Restores
      <4> QED
        BY <2>2, <3>1, <3>5, <4>3
    <3> QED
      BY <2>1, <3>3, <3>4, <3>5
  <2> QED
    BY <2>3, <2>4
<1>6. FullReturnRestoresCost'
  BY <1>5 DEF FullReturnRestoresCost, SoldOf
<1> QED
  BY <1>4, <1>6

\* Other documents bring nothing back.
LEMMA RestoreKept ==
  ASSUME ItemsMoved, FullReturnRestoresCost,
         \A b \in InvoiceIds : /\ invoices'[b].kind = invoices[b].kind
                               /\ invoices'[b].orig = invoices[b].orig
                               /\ invoices'[b].items = invoices[b].items
                               /\ movements'[b] = movements[b]
  PROVE  ItemsMoved' /\ FullReturnRestoresCost'
<1>1. ItemsMoved'
  BY DEF ItemsMoved
<1>2. ASSUME NEW q \in InvoiceIds, NEW p \in Products
      PROVE  ReturnedUnits(q, p)' = ReturnedUnits(q, p) /\ RestockedCost(q, p)' = RestockedCost(q, p)
  <2>1. Returns(q)' = Returns(q) /\ Returns(q) \subseteq InvoiceIds
    BY DEF Returns
  <2>2. /\ [r \in Returns(q) |-> Units(invoices'[r].items, p)] = [r \in Returns(q) |-> Units(invoices[r].items, p)]
        /\ [r \in Returns(q) |-> MovedCost(movements'[r], p)] = [r \in Returns(q) |-> MovedCost(movements[r], p)]
    BY <2>1
  <2> QED
    BY <2>1, <2>2 DEF ReturnedUnits, RestockedCost
<1>3. FullReturnRestoresCost'
  BY <1>2 DEF FullReturnRestoresCost, SoldOf
<1> QED
  BY <1>1, <1>3

-----------------------------------------------------------------------------
(* Stocktakes that are open.                                               *)

SessionLine == [units: Nat, value: Nat, counted: Nat \cup {Null}, unitCost: Nat \cup {Null}]

SessionRow(row) ==
  row = [status |-> row.status, warehouse |-> row.warehouse, date |-> row.date, lines |-> row.lines]

\* An open session is the only one of its warehouse, its period is open, and
\* its lines hold the stock as it is.
DraftSound(s) ==
  LET w == stocktakes[s].warehouse
      lines == stocktakes[s].lines
  IN  /\ w \in Warehouses /\ stocktakes[s].date \in Dates /\ Open(stocktakes[s].date)
      /\ DOMAIN lines \subseteq Products
      /\ \A p \in DOMAIN lines :
           /\ lines[p] \in SessionLine
           /\ lines[p].units = stock[w][p].units /\ lines[p].value = stock[w][p].value
      /\ \A t \in StocktakeIds :
           stocktakes[t].status = "draft" /\ stocktakes[t].warehouse = w => t = s

SessionInv ==
  /\ DOMAIN stocktakes = StocktakeIds
  /\ \A s \in StocktakeIds :
       /\ SessionRow(stocktakes[s])
       /\ stocktakes[s].status \in {"absent", "draft", "posted"}
       /\ stocktakes[s].status # "posted" => Unposted("stocktake", s)
       /\ stocktakes[s].status = "draft" => DraftSound(s)

\* The inductive invariant of the goods.
GoodsInv == InventoryInv /\ ItemsMoved /\ FullReturnRestoresCost /\ SessionInv

\* A command that leaves the counted warehouses alone leaves the sessions alone.
LEMMA SessionsKept ==
  ASSUME SessionInv, UNCHANGED <<stocktakes, closed>>,
         \A s : Unposted("stocktake", s) => Unposted("stocktake", s)',
         \A w \in Warehouses : Counting(w) => stock'[w] = stock[w]
  PROVE  SessionInv'
<1>1. ASSUME NEW s \in StocktakeIds, stocktakes[s].status = "draft" PROVE DraftSound(s)'
  <2>1. DraftSound(s)
    BY <1>1 DEF SessionInv
  <2>2. stock'[stocktakes[s].warehouse] = stock[stocktakes[s].warehouse]
    BY <1>1, <2>1 DEF DraftSound, Counting
  <2> QED
    BY <2>1, <2>2 DEF DraftSound, Open
<1> QED
  BY <1>1 DEF SessionInv

\* The goods and what the books say of them stay as they are.
LEMMA InventoryKept ==
  ASSUME InventoryInv, BooksAside, UNCHANGED <<stock, movements>>
  PROVE  InventoryInv'
<1>1. Documented' /\ StockTyped(stock)' /\ MovementRows' = MovementRows
  BY DEF InventoryInv, Documented, StockTyped, MovementRows
<1>2. \A w, p, type : /\ UnitsMoved(MovementRows, w, p, type)' = UnitsMoved(MovementRows, w, p, type)
                      /\ ValueMoved(MovementRows, w, p, type)' = ValueMoved(MovementRows, w, p, type)
  BY <1>1 DEF UnitsMoved, ValueMoved, MovementsOf, Movement
<1>3. InventoryAgrees'
  BY <1>2 DEF InventoryInv, InventoryAgrees, BooksAside
<1> QED
  BY <1>1, <1>3 DEF InventoryInv, BooksAside

LEMMA MoneyKeepsGoods ==
  ASSUME JournalInv, GoodsInv, MoneyCommand, InvoiceInv
  PROVE  GoodsInv'
<1>1. BooksAside /\ UNCHANGED <<stock, movements, stocktakes, closed>>
  BY MoneyAside DEF GoodsInv, InventoryInv
<1>2. InventoryInv'
  BY <1>1, InventoryKept DEF GoodsInv
<1>3. \A b \in InvoiceIds : /\ invoices'[b].kind = invoices[b].kind
                            /\ invoices'[b].orig = invoices[b].orig
                            /\ invoices'[b].items = invoices[b].items
  <2>1. \/ UNCHANGED invoices
        \/ \E i \in InvoiceIds : \E n : invoices' = [invoices EXCEPT ![i].paid = @ + n]
    <3>1. ASSUME NEW d \in Dates, PostTransaction(d)
          PROVE  \/ UNCHANGED invoices
                 \/ \E i \in InvoiceIds : \E n : invoices' = [invoices EXCEPT ![i].paid = @ + n]
      <4>1. PICK sum \in CashAmounts, account \in CashAccounts :
              \/ \E type \in {"receipt", "payment"} :
                   \/ \E i \in InvoiceIds : SettleInvoice(i, type, account, sum, d)
                   \/ CashOnAccount(type, account, sum, d)
              \/ \E to \in CashAccounts : TransferCash(account, to, sum, d)
        BY <3>1 DEF PostTransaction
      <4>2. ASSUME NEW type, NEW i \in InvoiceIds, SettleInvoice(i, type, account, sum, d)
            PROVE  invoices' = [invoices EXCEPT ![i].paid = @ + sum]
        BY <4>2 DEF SettleInvoice
      <4>3. ASSUME NEW type, CashOnAccount(type, account, sum, d) PROVE UNCHANGED invoices
        BY <4>3 DEF CashOnAccount
      <4>4. ASSUME NEW to, TransferCash(account, to, sum, d) PROVE UNCHANGED invoices
        BY <4>4 DEF TransferCash
      <4> QED
        BY <4>1, <4>2, <4>3, <4>4
    <3>2. ASSUME NEW d, NEW e, NEW income, NEW account, NEW n, PostExpense(e, income, account, n, d)
          PROVE  UNCHANGED invoices
      BY <3>2 DEF PostExpense
    <3>3. ASSUME NEW d, NEW c, NEW direction, NEW n, PostCheque(c, direction, n, d)
          PROVE  UNCHANGED invoices
      BY <3>3 DEF PostCheque
    <3>4. ASSUME NEW d, NEW c, NEW status, NEW account, ChangeChequeStatus(c, status, account, d)
          PROVE  UNCHANGED invoices
      BY <3>4 DEF ChangeChequeStatus
    <3> QED
      BY <3>1, <3>2, <3>3, <3>4 DEF MoneyCommand
  <2>2. ASSUME NEW i \in InvoiceIds, NEW n, invoices' = [invoices EXCEPT ![i].paid = @ + n],
               NEW b \in InvoiceIds
        PROVE  /\ invoices'[b].kind = invoices[b].kind
               /\ invoices'[b].orig = invoices[b].orig
               /\ invoices'[b].items = invoices[b].items
    <3>1. \/ invoices'[b] = invoices[b]
          \/ invoices'[b] = [invoices[b] EXCEPT !.paid = @ + n]
      BY <2>2 DEF InvoiceInv
    <3>2. invoices[b] \in InvoiceRow
      BY DEF InvoiceInv
    <3> DEFINE row == invoices[b]
               new == [row EXCEPT !.paid = @ + n]
    <3> HIDE DEF row
    <3>3. row \in InvoiceRow => new.kind = row.kind /\ new.orig = row.orig /\ new.items = row.items
      BY DEF InvoiceRow
    <3> QED
      BY <3>1, <3>2, <3>3 DEF row
  <2> QED
    BY <2>1, <2>2
<1>4. ItemsMoved' /\ FullReturnRestoresCost'
  BY <1>1, <1>3, RestoreKept DEF GoodsInv
<1>5. SessionInv'
  BY <1>1, SessionsKept DEF GoodsInv, BooksAside
<1> QED
  BY <1>2, <1>4, <1>5 DEF GoodsInv

-----------------------------------------------------------------------------
(* An invoice and its goods.                                               *)

LEMMA IssueBrings ==
  ASSUME InvoiceInv, GoodsInv, NEW i, NEW form \in InvoiceForms, NEW o \in InvoiceIds \cup {None},
         NEW w, NEW d, Issues(i, form, o, w, d)
  PROVE  Brings(form, o)
<1> SUFFICES ASSUME form.kind = "sale_return" PROVE Brings(form, o)
  BY DEF Brings
<1>1. o \in InvoiceIds /\ ReturnAllowed(form, o)
  BY DEF Issues, ReturnKinds
<1>2. SumsKnown(o)
  BY <1>1, SumsAreKnown DEF GoodsInv, InventoryInv
<1>3. ASSUME NEW k \in DOMAIN form.items, form.items[k].item \in Products
      PROVE  MovedUnits(movements[o], form.items[k].item) # 0
  BY <1>1, <1>3 DEF ReturnAllowed, GoodsInv, ItemsMoved
<1> QED
  BY <1>2, <1>3 DEF Brings

LEMMA UnitsCounted ==
  ASSUME NEW form \in InvoiceForms
  PROVE  \A p : UnitsUpTo(form.items, p, Len(form.items)) = Units(form.items, p)
<1>1. DOMAIN form.items = 1 .. Len(form.items)
  BY FormItems
<1> QED
  BY <1>1 DEF UnitsUpTo, Units

LEMMA IssueKeepsGoods ==
  ASSUME MoneyInv, Unmoved, GoodsInv, NEW i \in InvoiceIds, NEW form \in InvoiceForms,
         NEW o \in InvoiceIds \cup {None}, NEW w \in Warehouses, NEW d \in Dates,
         NEW account \in CashAccounts, IssueInvoice(i, form, o, w, d, account)
  PROVE  GoodsInv'
<1> DEFINE booked == BookItems(form, o, w)
           moves == booked.moves
           M == Dated(moves, d)
           cost == TotalCost(moves)
           net == NetTotals(form)
           lines == InvoiceLines(form, net, cost)
           cash == CashLines(SettledBy(form.kind), account, ControlAccount(form.kind), form.paid)
           dir == Direction(form.kind)
<1>1. /\ booked.ok /\ invoices[i].kind = "none" /\ Unposted("invoice", i)
      /\ moves # <<>> => ~Counting(w)
      /\ stock' = [stock EXCEPT ![w] = booked.balance]
      /\ movements' = [movements EXCEPT ![i] = M]
      /\ \/ journals' = journals \cup {Posting("invoice", i, d, lines)}
         \/ journals' = journals \cup {Posting("invoice", i, d, lines), Posting("treasury", NextTx, d, cash)}
      /\ UNCHANGED <<stocktakes, closed>>
  BY DEF IssueInvoice, WriteInvoice, TotalCost
<1>2. Issues(i, form, o, w, d)
  BY DEF IssueInvoice, WriteInvoice, Issues
<1>3. GoodsBooked(form, o, w, booked, Len(form.items))
  <2>1. Brings(form, o)
    BY <1>2, IssueBrings DEF MoneyInv
  <2> QED
    BY <1>1, <2>1, GoodsOfInvoice DEF GoodsInv, InventoryInv
<1>4. /\ DOMAIN net = DOMAIN form.items /\ \A k \in DOMAIN form.items : net[k] \in Int
  BY NetsAreInts
<1>5. \A k \in DOMAIN cash : cash[k].account # "inventory"
  <2>1. account # "inventory" /\ ControlAccount(form.kind) # "inventory"
    BY InventoryApart DEF ControlAccount
  <2> QED
    BY <2>1, TwoAside DEF CashLines
<1> HIDE DEF booked, net, lines, cash, dir
<1>6. /\ moves \in Seq(MoveRow) /\ cost \in Nat
      /\ \A p : MovedUnits(moves, p) \in Nat /\ MovedCost(moves, p) \in Nat
  <2>1. moves \in Seq(MoveRow)
    BY <1>3 DEF GoodsBooked
  <2> QED
    BY <2>1, RowsAreMoves, MoveSums
<1> HIDE DEF cost
<1>7. /\ M \in Seq(DatedRow)
      /\ \A p : MovedUnits(M, p) = MovedUnits(moves, p) /\ MovedCost(M, p) = MovedCost(moves, p)
      /\ \A v, p, type :
           /\ ListUnits(M, v, p, type) = IF v = w /\ type = dir THEN MovedUnits(moves, p) ELSE 0
           /\ ListCost(M, v, p, type) = IF v = w /\ type = dir THEN MovedCost(moves, p) ELSE 0
  <2>1. OnlyWay(moves, w, dir)
    BY <1>3 DEF GoodsBooked, OnlyWay, dir
  <2> HIDE DEF moves, dir
  <2>2. \A v, p, type :
          /\ ListUnits(moves, v, p, type) = IF v = w /\ type = dir THEN MovedUnits(moves, p) ELSE 0
          /\ ListCost(moves, v, p, type) = IF v = w /\ type = dir THEN MovedCost(moves, p) ELSE 0
    BY <2>1, OneWay
  <2> QED
    BY <1>6, <2>2, DatedMoves
<1> HIDE DEF M, moves
<1>8. dir \in {"in", "out"} /\ (Inward(form) <=> dir = "in")
  BY KindDirection DEF dir, Inward
<1>9. /\ stock \in [Warehouses -> [Products -> Stock]] /\ booked.balance \in [Products -> Stock]
      /\ \A p \in Products : booked.balance[p].units = 0 => booked.balance[p].value = 0
  BY <1>3 DEF GoodsInv, InventoryInv, StockTyped, GoodsBooked
<1>10. /\ StockTyped(stock') /\ stock'[w] = booked.balance
       /\ \A v \in Warehouses : v # w => stock'[v] = stock[v]
  <2>1. /\ stock' \in [Warehouses -> [Products -> Stock]] /\ stock'[w] = booked.balance
        /\ \A v \in Warehouses : v # w => stock'[v] = stock[v]
    BY <1>1, <1>9
  <2> QED
    BY <1>9, <2>1 DEF StockTyped, GoodsInv, InventoryInv
<1>11. ASSUME NEW v \in Warehouses, NEW p \in Products
       PROVE  /\ stock'[v][p].units = stock[v][p].units + ListUnits(M, v, p, "in") - ListUnits(M, v, p, "out")
              /\ stock'[v][p].value = stock[v][p].value + ListCost(M, v, p, "in") - ListCost(M, v, p, "out")
  <2>1. stock[v][p].units \in Nat /\ stock[v][p].value \in Nat
    BY <1>9 DEF Stock
  <2>2. CASE v # w
    <3>1. /\ ListUnits(M, v, p, "in") = 0 /\ ListUnits(M, v, p, "out") = 0
          /\ ListCost(M, v, p, "in") = 0 /\ ListCost(M, v, p, "out") = 0
          /\ stock'[v] = stock[v]
      BY <1>7, <1>10, <2>2
    <3> QED
      BY <2>1, <3>1
  <2>3. CASE v = w
    <3>1. /\ stock'[v][p].units = IF Inward(form) THEN stock[v][p].units + MovedUnits(moves, p)
                                                  ELSE stock[v][p].units - MovedUnits(moves, p)
          /\ stock'[v][p].value = IF Inward(form) THEN stock[v][p].value + MovedCost(moves, p)
                                                  ELSE stock[v][p].value - MovedCost(moves, p)
      BY <1>3, <1>10, <2>3 DEF GoodsBooked, moves
    <3>2. /\ ListUnits(M, v, p, "in") = IF dir = "in" THEN MovedUnits(moves, p) ELSE 0
          /\ ListUnits(M, v, p, "out") = IF dir = "out" THEN MovedUnits(moves, p) ELSE 0
          /\ ListCost(M, v, p, "in") = IF dir = "in" THEN MovedCost(moves, p) ELSE 0
          /\ ListCost(M, v, p, "out") = IF dir = "out" THEN MovedCost(moves, p) ELSE 0
      BY <1>7, <2>3
    <3>3. CASE dir = "in"
      <4>1. /\ stock'[v][p].units = stock[v][p].units + MovedUnits(moves, p)
            /\ stock'[v][p].value = stock[v][p].value + MovedCost(moves, p)
        BY <1>8, <3>1, <3>3
      <4>2. /\ ListUnits(M, v, p, "in") = MovedUnits(moves, p) /\ ListUnits(M, v, p, "out") = 0
            /\ ListCost(M, v, p, "in") = MovedCost(moves, p) /\ ListCost(M, v, p, "out") = 0
        BY <3>2, <3>3
      <4> QED
        BY <1>6, <2>1, <4>1, <4>2
    <3>4. CASE dir = "out"
      <4>1. /\ stock'[v][p].units = stock[v][p].units - MovedUnits(moves, p)
            /\ stock'[v][p].value = stock[v][p].value - MovedCost(moves, p)
        BY <1>8, <3>1, <3>4
      <4>2. /\ ListUnits(M, v, p, "in") = 0 /\ ListUnits(M, v, p, "out") = MovedUnits(moves, p)
            /\ ListCost(M, v, p, "in") = 0 /\ ListCost(M, v, p, "out") = MovedCost(moves, p)
        BY <3>2, <3>4
      <4>3. MovedUnits(moves, p) \in Nat /\ MovedCost(moves, p) \in Nat
        BY <1>6
      <4>4. stock'[v][p].units =
              stock[v][p].units + ListUnits(M, v, p, "in") - ListUnits(M, v, p, "out")
        BY <2>1, <4>1, <4>2, <4>3
      <4>5. stock'[v][p].value =
              stock[v][p].value + ListCost(M, v, p, "in") - ListCost(M, v, p, "out")
        BY <2>1, <4>1, <4>2, <4>3
      <4> QED
        BY <4>4, <4>5
    <3> QED
      BY <1>8, <3>3, <3>4
  <2> QED
    BY <2>2, <2>3
<1>12. StockAfter(stock', M)
  BY <1>10, <1>11 DEF StockAfter
<1>13. /\ EntriesInv' /\ \A s : Unposted("stocktake", s) => Unposted("stocktake", s)'
       /\ Balance("inventory") \in Int
       /\ Balance("inventory")' = Balance("inventory") + InventoryShare(form, net, cost)
       /\ InventoryShare(form, net, cost) \in Int
  <2>1. Entry(lines)["inventory"] = InventoryShare(form, net, cost) /\ InventoryShare(form, net, cost) \in Int
    BY <1>4, <1>6, InventoryEntry DEF lines
  <2>2. Entry(cash)["inventory"] = 0
    BY <1>5, InventoryApart, EntryOfNone
  <2>3. Listed /\ JournalInv /\ EntriesInv
    BY DEF MoneyInv, GoodsInv, InventoryInv
  <2>4. /\ EntriesInv' /\ Balance("inventory") \in Int
        /\ Balance("inventory")' = Balance("inventory") + Entry(lines)["inventory"]
        /\ \A s : Unposted("stocktake", s) => Unposted("stocktake", s)'
    BY <1>1, <2>1, <2>2, <2>3, InvoicePosted
  <2> QED
    BY <2>1, <2>4
<1>14. Balance("inventory")' = Worth(stock')
  <2>1. Balance("inventory") = Worth(stock)
    BY DEF GoodsInv, InventoryInv, InventoryAgrees, Worth
  <2>2. /\ Worth(stock') = IF Inward(form) THEN Worth(stock) + cost ELSE Worth(stock) - cost
        /\ form.kind = "purchase" => cost = NetUpTo(net, form.items, Len(form.items))
    BY <1>1, <1>3 DEF GoodsBooked, net, cost, moves
  <2>3. /\ Inward(form) <=> form.kind \in {"purchase", "sale_return"}
    BY KindDirection
  <2>4. InventoryShare(form, net, cost) = IF Inward(form) THEN cost ELSE -cost
    BY <2>2, <2>3 DEF InventoryShare
  <2> QED
    BY <1>6, <1>13, <2>1, <2>2, <2>4
<1>15. InventoryInv'
  <2>1. i \in Documents /\ movements[i] = <<>>
    BY <1>1 DEF Documents, Unmoved
  <2> QED
    BY <1>1, <1>7, <1>12, <1>13, <1>14, <2>1, StockMoved DEF GoodsInv
<1>16. Restores(form, o, M)
  <2> SUFFICES ASSUME NEW p \in Products
               PROVE  /\ MovedUnits(M, p) = Units(form.items, p)
                      /\ MovedUnits(M, p) = 0 => MovedCost(M, p) = 0
                      /\ form.kind = "sale_return" /\ MovedUnits(M, p) > 0
                         /\ ReturnedUnits(o, p) + MovedUnits(M, p) = MovedUnits(movements[o], p)
                         => RestockedCost(o, p) + MovedCost(M, p) = MovedCost(movements[o], p)
    BY DEF Restores
  <2>1. /\ MovedUnits(moves, p) = Units(form.items, p)
        /\ MovedUnits(moves, p) = 0 => MovedCost(moves, p) = 0
    BY <1>3, UnitsCounted DEF GoodsBooked, moves
  <2>2. ASSUME form.kind = "sale_return", MovedUnits(moves, p) > 0,
               ReturnedUnits(o, p) + MovedUnits(moves, p) = MovedUnits(movements[o], p)
        PROVE  RestockedCost(o, p) + MovedCost(moves, p) = MovedCost(movements[o], p)
    BY <1>3, <2>1, <2>2 DEF GoodsBooked, moves
  <2> QED
    BY <1>7, <2>1, <2>2
<1>17. ItemsMoved' /\ FullReturnRestoresCost'
  BY <1>1, <1>2, <1>7, <1>16, IssueRestores DEF GoodsInv, InventoryInv, MoneyInv
<1>18. SessionInv'
  <2>1. ASSUME NEW v \in Warehouses, Counting(v) PROVE stock'[v] = stock[v]
    <3>1. CASE v # w
      BY <1>10, <3>1
    <3>2. CASE v = w
      <4>1. moves = <<>>
        BY <1>1, <2>1, <3>2
      <4>2. booked.balance = stock[w]
        BY <1>3, <4>1 DEF GoodsBooked, moves
      <4> QED
        BY <1>10, <3>2, <4>2
    <3> QED
      BY <3>1, <3>2
  <2> QED
    BY <1>1, <1>13, <2>1, SessionsKept DEF GoodsInv
<1> QED
  BY <1>15, <1>17, <1>18 DEF GoodsInv

-----------------------------------------------------------------------------
(* Stock on its way to another warehouse.                                  *)

\* A list with one movement of a kind, or with none.
LEMMA ListSums ==
  ASSUME NEW M, NEW w, NEW p, NEW type
  PROVE  /\ \A k : ListOf(M, w, p, type) = {k} /\ M[k].units \in Int /\ M[k].cost \in Int =>
              ListUnits(M, w, p, type) = M[k].units /\ ListCost(M, w, p, type) = M[k].cost
         /\ ListOf(M, w, p, type) = {} => ListUnits(M, w, p, type) = 0 /\ ListCost(M, w, p, type) = 0
<1> DEFINE f == [k \in ListOf(M, w, p, type) |-> M[k].units]
           g == [k \in ListOf(M, w, p, type) |-> M[k].cost]
<1>1. /\ ListUnits(M, w, p, type) = SumFunction(f) /\ ListCost(M, w, p, type) = SumFunction(g)
      /\ DOMAIN f = ListOf(M, w, p, type) /\ DOMAIN g = ListOf(M, w, p, type)
      /\ \A k \in ListOf(M, w, p, type) : f[k] = M[k].units /\ g[k] = M[k].cost
  BY DEF ListUnits, ListCost
<1> HIDE DEF f, g
<1>2. ASSUME NEW k, ListOf(M, w, p, type) = {k}, M[k].units \in Int, M[k].cost \in Int
      PROVE  ListUnits(M, w, p, type) = M[k].units /\ ListCost(M, w, p, type) = M[k].cost
  <2>1. DOMAIN f = {k} /\ f[k] \in Int /\ DOMAIN g = {k} /\ g[k] \in Int
    BY <1>1, <1>2
  <2>2. SumFunction(f) = f[k] /\ SumFunction(g) = g[k]
    BY <2>1, SumOne
  <2> QED
    BY <1>1, <1>2, <2>2
<1>3. ListOf(M, w, p, type) = {} => ListUnits(M, w, p, type) = 0 /\ ListCost(M, w, p, type) = 0
  BY <1>1, SumNothing
<1> QED
  BY <1>2, <1>3

LEMMA TransferKeepsGoods ==
  ASSUME JournalInv, GoodsInv, NEW t \in TransferIds, NEW from \in Warehouses, NEW to \in Warehouses,
         NEW p \in Products, NEW units \in Quantities, NEW d \in Dates,
         TransferStock(t, from, to, p, units, d)
  PROVE  GoodsInv'
<1> DEFINE cost == IssueCost(stock[from][p], units)
           left == IssueStock(stock[from][p], units)
           got == ReceiveStock(stock[to][p], units, cost)
           moves == <<Move("out", from, p, units, cost), Move("in", to, p, units, cost)>>
           M == Dated(moves, d)
<1>1. /\ from # to /\ movements[t] = <<>> /\ units \in Nat \ {0} /\ units <= stock[from][p].units
      /\ ~Counting(from) /\ ~Counting(to)
      /\ stock' = [stock EXCEPT ![from][p] = left, ![to][p] = got]
      /\ movements' = [movements EXCEPT ![t] = M]
      /\ UNCHANGED <<journals, invoices, stocktakes, closed>>
  BY RetailAssumption DEF TransferStock, CanIssue
<1>2. stock \in [Warehouses -> [Products -> Stock]] /\ \A x \in Stock : x.units \in Nat /\ x.value \in Nat
  BY DEF GoodsInv, InventoryInv, StockTyped, Stock
<1>3. /\ cost \in Nat /\ left \in Stock /\ left.units = stock[from][p].units - units
      /\ left.value = stock[from][p].value - cost /\ (left.units = 0 => left.value = 0)
  BY <1>1, <1>2, IssueKeeps
<1>4. /\ got \in Stock /\ got.units = stock[to][p].units + units
      /\ got.value = stock[to][p].value + cost /\ got.units # 0
  <2> DEFINE b == stock[to][p]
  <2>1. b \in Stock /\ units \in Nat \ {0} /\ cost \in Nat
    BY <1>1, <1>2, <1>3
  <2> HIDE DEF b, cost
  <2>2. got = ReceiveStock(b, units, cost)
    BY DEF b
  <2>3. /\ ReceiveStock(b, units, cost) \in Stock /\ ReceiveStock(b, units, cost).units = b.units + units
        /\ ReceiveStock(b, units, cost).value = b.value + cost /\ ReceiveStock(b, units, cost).units # 0
    BY <2>1, ReceiveKeeps
  <2> HIDE DEF got
  <2> QED
    BY <2>2, <2>3 DEF b
<1> HIDE DEF cost, left, got
<1>5. /\ stock' \in [Warehouses -> [Products -> Stock]]
      /\ stock'[from][p] = left /\ stock'[to][p] = got
      /\ \A v \in Warehouses, q \in Products : q # p \/ v \notin {from, to} => stock'[v][q] = stock[v][q]
      /\ \A v \in Warehouses : v \notin {from, to} => stock'[v] = stock[v]
  BY <1>1, <1>2, <1>3, <1>4
<1>6. StockTyped(stock')
  <2>1. ASSUME NEW v \in Warehouses, NEW q \in Products, stock'[v][q].units = 0
        PROVE  stock'[v][q].value = 0
    BY <1>3, <1>4, <1>5, <2>1 DEF GoodsInv, InventoryInv, StockTyped
  <2> QED
    BY <1>5, <2>1 DEF StockTyped
<1>7. Worth(stock') = Worth(stock)
  <2> DEFINE mid == [v \in Warehouses |-> [q \in Products |->
                       IF v = from /\ q = p THEN left ELSE stock[v][q]]]
  <2>1. /\ \A v \in Warehouses, q \in Products :
             mid[v][q] = IF v = from /\ q = p THEN left ELSE stock[v][q]
    OBVIOUS
  <2> HIDE DEF mid
  <2>2. \A v \in Warehouses, q \in Products :
          stock[v][q].value \in Int /\ mid[v][q].value \in Int /\ stock'[v][q].value \in Int
    BY <1>2, <1>3, <1>5, <2>1
  <2>3. OneBalance(stock, mid, from, p)
    BY <2>1, <2>2 DEF OneBalance
  <2>4. OneBalance(mid, stock', to, p)
    <3>1. \A v \in Warehouses, q \in Products : v # to \/ q # p => stock'[v][q] = mid[v][q]
      BY <1>5, <2>1
    <3> QED
      BY <2>2, <3>1 DEF OneBalance
  <2>5. WorthMoves(stock, mid, from, p) /\ WorthMoves(mid, stock', to, p)
    BY <2>3, <2>4, WorthChanged
  <2>6. /\ Worth(mid) = Worth(stock) - stock[from][p].value + left.value /\ Worth(stock) \in Int
        /\ Worth(stock') = Worth(mid) - stock[to][p].value + got.value /\ Worth(mid) \in Int
    BY <1>1, <1>5, <2>1, <2>5 DEF WorthMoves
  <2> QED
    BY <1>2, <1>3, <1>4, <2>2, <2>6
<1>8. /\ moves \in Seq(MoveRow) /\ DOMAIN moves = {1, 2}
      /\ moves[1] = Move("out", from, p, units, cost) /\ moves[2] = Move("in", to, p, units, cost)
  <2>1. Move("out", from, p, units, cost) \in MoveRow /\ Move("in", to, p, units, cost) \in MoveRow
    BY <1>1, <1>3 DEF Move, MoveRow
  <2> QED
    BY <2>1
<1>9. /\ moves[1].type = "out" /\ moves[1].warehouse = from /\ moves[1].product = p
      /\ moves[1].units = units /\ moves[1].cost = cost
      /\ moves[2].type = "in" /\ moves[2].warehouse = to /\ moves[2].product = p
      /\ moves[2].units = units /\ moves[2].cost = cost
  BY <1>8 DEF Move
<1> HIDE DEF moves
<1>10. /\ M \in Seq(DatedRow)
       /\ \A v, q, type : /\ ListUnits(M, v, q, type) = ListUnits(moves, v, q, type)
                          /\ ListCost(M, v, q, type) = ListCost(moves, v, q, type)
  BY <1>8, DatedMoves
<1> HIDE DEF M
<1>11. ASSUME NEW v, NEW q
       PROVE  /\ ListUnits(M, v, q, "out") = IF v = from /\ q = p THEN units ELSE 0
              /\ ListCost(M, v, q, "out") = IF v = from /\ q = p THEN cost ELSE 0
              /\ ListUnits(M, v, q, "in") = IF v = to /\ q = p THEN units ELSE 0
              /\ ListCost(M, v, q, "in") = IF v = to /\ q = p THEN cost ELSE 0
  <2>1. /\ ListOf(moves, v, q, "out") = IF v = from /\ q = p THEN {1} ELSE {}
        /\ ListOf(moves, v, q, "in") = IF v = to /\ q = p THEN {2} ELSE {}
    BY <1>8, <1>9 DEF ListOf
  <2>2. /\ ListUnits(moves, v, q, "out") = IF v = from /\ q = p THEN units ELSE 0
        /\ ListCost(moves, v, q, "out") = IF v = from /\ q = p THEN cost ELSE 0
    BY <1>1, <1>3, <1>9, <2>1, ListSums
  <2>3. /\ ListUnits(moves, v, q, "in") = IF v = to /\ q = p THEN units ELSE 0
        /\ ListCost(moves, v, q, "in") = IF v = to /\ q = p THEN cost ELSE 0
    BY <1>1, <1>3, <1>9, <2>1, ListSums
  <2> QED
    BY <1>10, <2>2, <2>3
<1>12. StockAfter(stock', M)
  <2> SUFFICES ASSUME NEW v \in Warehouses, NEW q \in Products
               PROVE  /\ stock'[v][q].units = stock[v][q].units + ListUnits(M, v, q, "in")
                                                                - ListUnits(M, v, q, "out")
                      /\ stock'[v][q].value = stock[v][q].value + ListCost(M, v, q, "in")
                                                                - ListCost(M, v, q, "out")
    BY <1>6 DEF StockAfter
  <2>1. stock[v][q].units \in Nat /\ stock[v][q].value \in Nat /\ units \in Nat
    BY <1>1, <1>2
  <2>2. CASE v = from /\ q = p
    <3>1. /\ ListUnits(M, v, q, "in") = 0 /\ ListUnits(M, v, q, "out") = units
          /\ ListCost(M, v, q, "in") = 0 /\ ListCost(M, v, q, "out") = cost
      BY <1>1, <1>11, <2>2
    <3>2. stock'[v][q] = left /\ stock[v][q] = stock[from][p]
      BY <1>5, <2>2
    <3> QED
      BY <1>3, <2>1, <3>1, <3>2
  <2>3. CASE v = to /\ q = p
    <3>1. /\ ListUnits(M, v, q, "in") = units /\ ListUnits(M, v, q, "out") = 0
          /\ ListCost(M, v, q, "in") = cost /\ ListCost(M, v, q, "out") = 0
      BY <1>1, <1>11, <2>3
    <3>2. stock'[v][q] = got /\ stock[v][q] = stock[to][p]
      BY <1>5, <2>3
    <3> QED
      BY <1>3, <1>4, <2>1, <3>1, <3>2
  <2>4. CASE q # p \/ v \notin {from, to}
    BY <1>5, <1>11, <2>1, <2>4
  <2> QED
    BY <2>2, <2>3, <2>4
<1>13. BooksAside
  BY <1>1, AsideKept DEF GoodsInv, InventoryInv
<1>14. InventoryInv'
  <2>1. Balance("inventory")' = Worth(stock') /\ EntriesInv' /\ t \in Documents
    BY <1>7, <1>13 DEF BooksAside, GoodsInv, InventoryInv, InventoryAgrees, Worth, Documents
  <2> QED
    BY <1>1, <1>10, <1>12, <2>1, StockMoved DEF GoodsInv
<1>15. ItemsMoved' /\ FullReturnRestoresCost'
  <2>1. \A b \in InvoiceIds : movements'[b] = movements[b]
    BY <1>1, RetailAssumption DEF GoodsInv, InventoryInv, Documented, Documents
  <2> QED
    BY <1>1, <2>1, RestoreKept DEF GoodsInv
<1>16. SessionInv'
  <2>1. \A v \in Warehouses : Counting(v) => stock'[v] = stock[v]
    BY <1>1, <1>5
  <2> QED
    BY <1>1, <1>13, <2>1, SessionsKept DEF GoodsInv, BooksAside
<1> QED
  BY <1>14, <1>15, <1>16 DEF GoodsInv

-----------------------------------------------------------------------------
(* Sessions and periods.                                                   *)

\* Commands that neither move goods nor post.
LEMMA GoodsAside ==
  ASSUME GoodsInv, UNCHANGED <<journals, invoices, stock, movements>>
  PROVE  /\ InventoryInv' /\ ItemsMoved' /\ FullReturnRestoresCost'
         /\ \A s : Unposted("stocktake", s)' <=> Unposted("stocktake", s)
<1>1. BooksAside
  BY AsideKept DEF GoodsInv, InventoryInv
<1>2. InventoryInv'
  BY <1>1, InventoryKept DEF GoodsInv
<1>3. ItemsMoved' /\ FullReturnRestoresCost'
  BY RestoreKept DEF GoodsInv
<1> QED
  BY <1>2, <1>3 DEF Unposted

\* A session that is opened, or one whose count changes.
LEMMA SessionChanged ==
  ASSUME SessionInv, UNCHANGED <<stock, closed>>, \A s : Unposted("stocktake", s)' <=> Unposted("stocktake", s),
         NEW s \in StocktakeIds, NEW row, stocktakes' = [stocktakes EXCEPT ![s] = row],
         stocktakes[s].status # "posted", row.status = "draft", SessionRow(row), DraftSound(s)',
         \A t \in StocktakeIds \ {s} : stocktakes[t].status = "draft" => stocktakes[t].warehouse # row.warehouse
  PROVE  SessionInv'
<1>1. /\ DOMAIN stocktakes' = StocktakeIds /\ stocktakes'[s] = row
      /\ \A t \in StocktakeIds \ {s} : stocktakes'[t] = stocktakes[t]
  BY DEF SessionInv
<1>2. ASSUME NEW t \in StocktakeIds \ {s}, stocktakes[t].status = "draft" PROVE DraftSound(t)'
  <2>1. DraftSound(t) /\ stocktakes'[t] = stocktakes[t]
    BY <1>1, <1>2 DEF SessionInv
  <2>2. ASSUME NEW u \in StocktakeIds, stocktakes'[u].status = "draft",
               stocktakes'[u].warehouse = stocktakes'[t].warehouse
        PROVE  u = t
    BY <1>1, <1>2, <2>1, <2>2 DEF DraftSound
  <2> QED
    BY <2>1, <2>2 DEF DraftSound, Open
<1>3. ASSUME NEW t \in StocktakeIds
      PROVE  /\ SessionRow(stocktakes[t])'
             /\ stocktakes'[t].status \in {"absent", "draft", "posted"}
             /\ stocktakes'[t].status # "posted" => Unposted("stocktake", t)'
             /\ stocktakes'[t].status = "draft" => DraftSound(t)'
  <2>1. CASE t = s
    BY <1>1, <2>1 DEF SessionInv, SessionRow
  <2>2. CASE t # s
    <3>1. stocktakes'[t] = stocktakes[t]
      BY <1>1, <2>2
    <3>2. SessionRow(stocktakes[t])'
      BY <3>1 DEF SessionInv, SessionRow
    <3> QED
      BY <1>2, <2>2, <3>1, <3>2 DEF SessionInv
  <2> QED
    BY <2>1, <2>2
<1> QED
  BY <1>1, <1>3 DEF SessionInv

LEMMA NewStocktakeKeepsGoods ==
  ASSUME GoodsInv, NEW s \in StocktakeIds, NEW w \in Warehouses, NEW d \in Dates, NewStocktake(s, w, d)
  PROVE  GoodsInv'
<1> DEFINE lines == [p \in {q \in Products : HasBalance(w, q)} |-> Expected(w, p)]
           row == [status |-> "draft", warehouse |-> w, date |-> d, lines |-> lines]
<1>1. /\ stocktakes[s].status = "absent" /\ Open(d) /\ ~Counting(w)
      /\ stocktakes' = [stocktakes EXCEPT ![s] = row]
      /\ UNCHANGED <<journals, invoices, stock, movements, closed>>
  BY DEF NewStocktake
<1>2. /\ InventoryInv' /\ ItemsMoved' /\ FullReturnRestoresCost'
      /\ \A t : Unposted("stocktake", t)' <=> Unposted("stocktake", t)
  BY <1>1, GoodsAside
<1>3. stocktakes'[s] = row
  BY <1>1 DEF GoodsInv, SessionInv
<1>4. DOMAIN lines \subseteq Products /\ \A p \in DOMAIN lines : lines[p] = Expected(w, p)
  OBVIOUS
<1>5. ASSUME NEW p \in Products
      PROVE  /\ Expected(w, p) \in SessionLine /\ Expected(w, p).units = stock[w][p].units
             /\ Expected(w, p).value = stock[w][p].value
  <2>1. stock[w][p].units \in Nat /\ stock[w][p].value \in Nat
    BY DEF GoodsInv, InventoryInv, StockTyped, Stock
  <2> QED
    BY <2>1 DEF Expected, SessionLine
<1> HIDE DEF lines
<1>6. row.status = "draft" /\ row.warehouse = w /\ row.date = d /\ row.lines = lines /\ SessionRow(row)
  BY DEF SessionRow
<1> HIDE DEF row
<1>7. \A t \in StocktakeIds \ {s} : stocktakes[t].status = "draft" => stocktakes[t].warehouse # w
  BY <1>1 DEF Counting
<1>8. DraftSound(s)'
  <2>1. /\ stocktakes'[s].warehouse = w /\ stocktakes'[s].date = d /\ stocktakes'[s].lines = lines
    BY <1>3, <1>6
  <2>2. \A p \in DOMAIN lines : /\ lines[p] \in SessionLine
                                /\ lines[p].units = stock'[w][p].units
                                /\ lines[p].value = stock'[w][p].value
    BY <1>1, <1>4, <1>5
  <2>3. \A t \in StocktakeIds : stocktakes'[t].status = "draft" /\ stocktakes'[t].warehouse = w => t = s
    BY <1>1, <1>7 DEF GoodsInv, SessionInv
  <2>4. Open(d)'
    BY <1>1 DEF Open
  <2> QED
    BY <1>4, <2>1, <2>2, <2>3, <2>4 DEF DraftSound
<1>9. SessionInv'
  BY <1>1, <1>2, <1>6, <1>7, <1>8, SessionChanged DEF GoodsInv
<1> QED
  BY <1>2, <1>9 DEF GoodsInv

LEMMA CountKeepsGoods ==
  ASSUME GoodsInv, NEW s \in StocktakeIds, NEW p \in Products, NEW units \in Quantities,
         NEW unitCost \in UnitCosts \cup {Null}, CountStocktake(s, p, units, unitCost)
  PROVE  GoodsInv'
<1> DEFINE lines == stocktakes[s].lines
           w == stocktakes[s].warehouse
           old == IF p \in DOMAIN lines THEN lines[p] ELSE Expected(w, p)
           new == [old EXCEPT !.counted = units, !.unitCost = IF unitCost = Null THEN @ ELSE unitCost]
           counted == [q \in DOMAIN lines \cup {p} |-> IF q = p THEN new ELSE lines[q]]
           row == [stocktakes[s] EXCEPT !.lines = counted]
<1>1. /\ stocktakes[s].status = "draft"
      /\ stocktakes' = [stocktakes EXCEPT ![s] = row]
      /\ UNCHANGED <<journals, invoices, stock, movements, closed>>
  BY DEF CountStocktake
<1>2. /\ InventoryInv' /\ ItemsMoved' /\ FullReturnRestoresCost'
      /\ \A t : Unposted("stocktake", t)' <=> Unposted("stocktake", t)
  BY <1>1, GoodsAside
<1>3. DraftSound(s) /\ SessionRow(stocktakes[s]) /\ DOMAIN stocktakes = StocktakeIds
  BY <1>1 DEF GoodsInv, SessionInv
<1>4. /\ w \in Warehouses /\ stocktakes[s].date \in Dates /\ Open(stocktakes[s].date)
      /\ DOMAIN lines \subseteq Products
      /\ \A q \in DOMAIN lines :
           /\ lines[q] \in SessionLine
           /\ lines[q].units = stock[w][q].units /\ lines[q].value = stock[w][q].value
      /\ \A t \in StocktakeIds :
           stocktakes[t].status = "draft" /\ stocktakes[t].warehouse = w => t = s
  BY <1>3 DEF DraftSound
<1>5. old \in SessionLine /\ old.units = stock[w][p].units /\ old.value = stock[w][p].value
  <2>1. stock[w][p].units \in Nat /\ stock[w][p].value \in Nat
    BY <1>4 DEF GoodsInv, InventoryInv, StockTyped, Stock
  <2>2. /\ Expected(w, p) \in SessionLine /\ Expected(w, p).units = stock[w][p].units
        /\ Expected(w, p).value = stock[w][p].value
    BY <2>1 DEF Expected, SessionLine
  <2> QED
    BY <1>4, <2>2
<1> HIDE DEF old
<1>6. new \in SessionLine /\ new.units = stock[w][p].units /\ new.value = stock[w][p].value
  <2>1. units \in Nat /\ (unitCost \in Nat \/ unitCost = Null)
    BY RetailAssumption
  <2> QED
    BY <1>5, <2>1 DEF SessionLine
<1> HIDE DEF new
<1>7. /\ DOMAIN counted = DOMAIN lines \cup {p} /\ counted[p] = new
      /\ \A q \in DOMAIN lines \ {p} : counted[q] = lines[q]
  OBVIOUS
<1> HIDE DEF counted
<1>8. /\ row.status = "draft" /\ row.warehouse = w /\ row.date = stocktakes[s].date
      /\ row.lines = counted /\ SessionRow(row)
  <2> DEFINE old1 == stocktakes[s]
             new1 == [old1 EXCEPT !.lines = counted]
  <2>1. SessionRow(old1) /\ old1.status = "draft"
    BY <1>1, <1>3
  <2> HIDE DEF old1
  <2>2. /\ new1.status = "draft" /\ new1.warehouse = old1.warehouse /\ new1.date = old1.date
        /\ new1.lines = counted /\ SessionRow(new1)
    BY <2>1 DEF SessionRow
  <2> QED
    BY <2>2 DEF old1
<1>9. stocktakes'[s] = row /\ \A t \in StocktakeIds \ {s} : stocktakes'[t] = stocktakes[t]
  BY <1>1, <1>3
<1> HIDE DEF row
<1>10. DraftSound(s)'
  <2>1. /\ stocktakes'[s].warehouse = w /\ stocktakes'[s].date = stocktakes[s].date
        /\ stocktakes'[s].lines = counted
    BY <1>8, <1>9
  <2> HIDE DEF lines, w
  <2>2. \A q \in DOMAIN counted : /\ counted[q] \in SessionLine
                                  /\ counted[q].units = stock'[w][q].units
                                  /\ counted[q].value = stock'[w][q].value
    BY <1>1, <1>4, <1>6, <1>7
  <2>3. \A t \in StocktakeIds : stocktakes'[t].status = "draft" /\ stocktakes'[t].warehouse = w => t = s
    BY <1>4, <1>9
  <2>4. /\ stocktakes'[s].date \in Dates /\ Open(stocktakes[s].date)'
        /\ w \in Warehouses /\ DOMAIN counted \subseteq Products
    BY <1>1, <1>4, <1>7, <2>1 DEF Open
  <2> QED
    BY <2>1, <2>2, <2>3, <2>4 DEF DraftSound
<1>11. SessionInv'
  BY <1>1, <1>2, <1>4, <1>8, <1>10, SessionChanged DEF GoodsInv
<1> QED
  BY <1>2, <1>11 DEF GoodsInv

LEMMA CloseKeepsGoods ==
  ASSUME GoodsInv, NEW p, ClosePeriod(p)
  PROVE  GoodsInv'
<1>1. /\ \A s \in StocktakeIds : stocktakes[s].status # "draft"
      /\ UNCHANGED <<journals, invoices, stock, movements, stocktakes>>
  BY DEF ClosePeriod, goods
<1>2. /\ InventoryInv' /\ ItemsMoved' /\ FullReturnRestoresCost'
      /\ \A t : Unposted("stocktake", t)' <=> Unposted("stocktake", t)
  BY <1>1, GoodsAside
<1>3. SessionInv'
  BY <1>1, <1>2 DEF GoodsInv, SessionInv, SessionRow
<1> QED
  BY <1>2, <1>3 DEF GoodsInv

LEMMA NothingKeepsGoods ==
  ASSUME GoodsInv, UNCHANGED vars
  PROVE  GoodsInv'
<1>1. UNCHANGED <<journals, invoices, stock, movements, stocktakes, closed>>
  BY DEF vars
<1>2. /\ InventoryInv' /\ ItemsMoved' /\ FullReturnRestoresCost'
      /\ \A t : Unposted("stocktake", t)' <=> Unposted("stocktake", t)
  BY <1>1, GoodsAside
<1>3. SessionInv'
  BY <1>1, <1>2, SessionsKept DEF GoodsInv
<1> QED
  BY <1>2, <1>3 DEF GoodsInv

-----------------------------------------------------------------------------
(* The end of a stocktake.                                                 *)

\* A finite set put in a row: every member once.
LEMMA RowOfSet ==
  ASSUME NEW S, IsFiniteSet(S)
  PROVE  /\ SetToSeq(S) \in Seq(S)
         /\ \A x \in S : \E k \in DOMAIN SetToSeq(S) : SetToSeq(S)[k] = x
         /\ \A j, k \in DOMAIN SetToSeq(S) : SetToSeq(S)[j] = SetToSeq(S)[k] => j = k
<1> DEFINE n == Cardinality(S)
           f == SetToSeq(S)
<1>1. n \in Nat /\ \E b : b \in Bijection(1 .. n, S)
  BY FS_CardinalityType DEF ExistsBijection
<1>2. \E b \in [1 .. n -> S] : IsInjective(b)
  BY <1>1 DEF Bijection, Injection
<1>3. f \in [1 .. n -> S] /\ IsInjective(f)
  BY <1>2 DEF SetToSeq
<1> HIDE DEF f
<1>4. f \in Injection(1 .. n, S)
  BY <1>3 DEF Injection
<1>5. Cardinality(1 .. n) = n
  BY <1>1, FS_Interval
<1>6. f \in Surjection(1 .. n, S)
  BY <1>4, <1>5, FS_Injection
<1>7. f \in Seq(S)
  <2> HIDE DEF n
  <2> QED
    BY <1>1, <1>3
<1>8. DOMAIN f = 1 .. n /\ \A x \in S : \E k \in 1 .. n : f[k] = x
  BY <1>3, <1>6 DEF Surjection
<1> QED
  BY <1>3, <1>7, <1>8 DEF f, IsInjective

\* Values that are placed in one warehouse.
Placed(w, g) == [wp \in Warehouses \X Products |-> IF wp[1] = w /\ wp[2] \in DOMAIN g THEN g[wp[2]] ELSE 0]

LEMMA PlacedSum ==
  ASSUME NEW w \in Warehouses, NEW g, DOMAIN g \subseteq Products, \A p \in DOMAIN g : g[p] \in Int
  PROVE  SumFunction(Placed(w, g)) = SumFunction(g) /\ SumFunction(g) \in Int
<1> DEFINE S == Warehouses \X Products
           T == DOMAIN g
           f == Placed(w, g)
           e == [p \in T |-> <<w, p>>]
<1>1. IsFiniteSet(S) /\ IsFiniteSet(T)
  BY PlacesFinite, RetailAssumption, FS_Subset
<1>2. /\ \A p \in T : e[p] \in S /\ e[p] = <<w, p>>
      /\ \A p, q \in T : e[p] = e[q] => p = q
  OBVIOUS
<1>3. /\ DOMAIN f = S
      /\ \A wp \in S : f[wp] = IF wp[1] = w /\ wp[2] \in T THEN g[wp[2]] ELSE 0
  BY DEF Placed
<1>4. \A p \in T : g[p] \in Int /\ f[e[p]] = g[p]
  BY <1>2, <1>3
<1>5. ASSUME NEW x \in S, x \notin {e[p] : p \in T} PROVE f[x] = 0
  <2>1. x = <<x[1], x[2]>>
    OBVIOUS
  <2>2. CASE x[1] = w /\ x[2] \in T
    <3>1. x = e[x[2]]
      BY <1>2, <2>1, <2>2
    <3> QED
      BY <1>5, <2>2, <3>1
  <2> QED
    BY <1>3, <2>2
<1> HIDE DEF f, e, S
<1>6. SumFunction(f) = SumFunction(g)
  <2> HIDE DEF T
  <2>1. DOMAIN g = T
    BY DEF T
  <2> QED
    BY <1>1, <1>2, <1>3, <1>4, <1>5, <2>1, SumInjected
<1>7. SumFunction(g) \in Int
  BY <1>1, SumInt
<1> QED
  BY <1>6, <1>7 DEF f

\* In warehouse w, t is worth more than s by g and less by h.
Revalued(s, t, w, g, h) ==
  /\ DOMAIN g \subseteq Products /\ \A p \in DOMAIN g : g[p] \in Int
  /\ DOMAIN h \subseteq Products /\ \A p \in DOMAIN h : h[p] \in Int
  /\ \A v \in Warehouses, p \in Products :
       /\ s[v][p].value \in Int
       /\ t[v][p].value = s[v][p].value + (IF v = w /\ p \in DOMAIN g THEN g[p] ELSE 0)
                                        - (IF v = w /\ p \in DOMAIN h THEN h[p] ELSE 0)

LEMMA WorthRevalued ==
  ASSUME NEW s, NEW t, NEW w \in Warehouses, NEW g, NEW h, Revalued(s, t, w, g, h)
  PROVE  /\ Worth(t) = Worth(s) + SumFunction(g) - SumFunction(h)
         /\ Worth(s) \in Int /\ SumFunction(g) \in Int /\ SumFunction(h) \in Int
<1> DEFINE S == Warehouses \X Products
           a == [wp \in S |-> s[wp[1]][wp[2]].value]
           b == [wp \in S |-> t[wp[1]][wp[2]].value]
           x == Placed(w, g)
           y == Placed(w, h)
           z == [wp \in S |-> a[wp] + x[wp]]
<1>1. /\ SumFunction(x) = SumFunction(g) /\ SumFunction(h) = SumFunction(y)
      /\ SumFunction(g) \in Int /\ SumFunction(h) \in Int
  BY PlacedSum DEF Revalued
<1>2. IsFiniteSet(S) /\ Worth(s) = SumFunction(a) /\ Worth(t) = SumFunction(b)
  BY PlacesFinite DEF Worth
<1>3. /\ DOMAIN a = S /\ DOMAIN b = S /\ DOMAIN x = S /\ DOMAIN y = S /\ DOMAIN z = S
      /\ \A wp \in S : /\ a[wp] = s[wp[1]][wp[2]].value
                       /\ b[wp] = t[wp[1]][wp[2]].value
                       /\ x[wp] = IF wp[1] = w /\ wp[2] \in DOMAIN g THEN g[wp[2]] ELSE 0
                       /\ y[wp] = IF wp[1] = w /\ wp[2] \in DOMAIN h THEN h[wp[2]] ELSE 0
                       /\ z[wp] = a[wp] + x[wp]
                       /\ wp[1] \in Warehouses /\ wp[2] \in Products
  BY DEF Placed
<1> HIDE DEF a, b, x, y, z, S
<1>4. ASSUME NEW wp \in S
      PROVE  a[wp] \in Int /\ x[wp] \in Int /\ y[wp] \in Int /\ b[wp] = a[wp] + x[wp] - y[wp]
  <2>1. a[wp] \in Int /\ x[wp] \in Int /\ y[wp] \in Int
    BY <1>3 DEF Revalued
  <2>2. b[wp] = a[wp] + x[wp] - y[wp]
    BY <1>3 DEF Revalued
  <2> QED
    BY <2>1, <2>2
<1>5. SumFunction(z) = SumFunction(a) + SumFunction(x) /\ SumFunction(a) \in Int
  <2>1. \A wp \in S : a[wp] \in Int /\ x[wp] \in Int /\ z[wp] = a[wp] + x[wp]
    BY <1>3, <1>4
  <2>2. SumFunction(z) = SumFunction(a) + SumFunction(x)
    BY <1>2, <1>3, <2>1, SumPlus
  <2> QED
    BY <1>2, <1>3, <2>1, <2>2, SumInt
<1>6. SumFunction(b) = SumFunction(z) - SumFunction(y)
  <2>1. \A wp \in S : z[wp] \in Int /\ y[wp] \in Int /\ b[wp] = z[wp] - y[wp]
    BY <1>3, <1>4
  <2> QED
    BY <1>2, <1>3, <2>1, SumMinus
<1> QED
  BY <1>1, <1>2, <1>5, <1>6

LEMMA VarianceEntry ==
  ASSUME NEW x \in Int, NEW y \in Int
  PROVE  Entry(VarianceLines(x, y))["inventory"] = x - y
<1> DEFINE lines == VarianceLines(x, y)
           f == [k \in {1} |-> lines[k].amount]
           g == [k \in {1, 4} |-> lines[k].amount]
<1>1. /\ DOMAIN lines = 1 .. 4 /\ lines[1].account = "inventory" /\ lines[2].account = "variance"
      /\ lines[3].account = "variance" /\ lines[4].account = "inventory"
      /\ lines[1].amount = x /\ lines[4].amount = -y
  BY DEF VarianceLines, Line
<1> HIDE DEF lines
<1>2. {k \in DOMAIN lines : lines[k].account = "inventory"} = {1, 4}
  BY <1>1
<1>3. Entry(lines)["inventory"] = SumFunction(g)
  BY <1>2, InventoryApart DEF Entry
<1>4. /\ DOMAIN f = {1} /\ f[1] = x /\ DOMAIN g = DOMAIN f \cup {4} /\ g[1] = x /\ g[4] = -y
  BY <1>1
<1> HIDE DEF f, g
<1>5. /\ IsFiniteSet(DOMAIN f) /\ 4 \notin DOMAIN f
      /\ DOMAIN g = DOMAIN f \/ DOMAIN g = DOMAIN f \cup {4}
      /\ \A k \in DOMAIN f : f[k] \in Int /\ g[k] = f[k]
      /\ 4 \in DOMAIN g => g[4] \in Int
      /\ DOMAIN f = {1} /\ f[1] \in Int
  BY <1>4, FS_Singleton
<1>6. SumFunction(g) = SumFunction(f) + ValueAt(g, 4)
  BY <1>5, SumGrown
<1>7. SumFunction(f) = x
  <2>1. SumFunction(f) = f[1]
    BY <1>5, SumOne
  <2> QED
    BY <1>4, <2>1
<1>8. ValueAt(g, 4) = -y
  BY <1>4 DEF ValueAt
<1> QED
  BY <1>3, <1>6, <1>7, <1>8 DEF lines

\* What a session that can be finalized counts.
Counted(w, lines) ==
  /\ w \in Warehouses /\ DOMAIN lines \subseteq Products
  /\ \A p \in More(lines) : Surplus(lines[p]) \in Nat \ {0} /\ SurplusCost(lines[p]) \in Nat
  /\ \A p \in Less(lines) :
       /\ -Surplus(lines[p]) \in Nat \ {0} /\ -Surplus(lines[p]) <= stock[w][p].units
       /\ LostCost(w, lines, p) \in Nat
  /\ \A p \in DOMAIN lines :
       p \notin More(lines) /\ p \notin Less(lines) => ~(Surplus(lines[p]) > 0) /\ ~(Surplus(lines[p]) < 0)
  /\ Increase(lines) \in Nat /\ Decrease(w, lines) \in Nat
  /\ Adjustments(w, lines) \subseteq MoveRow /\ IsFiniteSet(Adjustments(w, lines))

LEMMA SessionCounted ==
  ASSUME StockTyped(stock), NEW s, DraftSound(s),
         \A p \in DOMAIN stocktakes[s].lines :
           stocktakes[s].lines[p].counted # Null /\ CanValue(stocktakes[s].lines[p])
  PROVE  Counted(stocktakes[s].warehouse, stocktakes[s].lines)
<1> DEFINE w == stocktakes[s].warehouse
           lines == stocktakes[s].lines
<1>1. /\ w \in Warehouses /\ DOMAIN lines \subseteq Products
      /\ \A p \in DOMAIN lines :
           /\ lines[p] \in SessionLine /\ lines[p].counted # Null /\ CanValue(lines[p])
           /\ lines[p].units = stock[w][p].units /\ lines[p].value = stock[w][p].value
  BY DEF DraftSound
<1> HIDE DEF w, lines
<1>2. ASSUME NEW p \in DOMAIN lines
      PROVE  /\ lines[p].units \in Nat /\ lines[p].value \in Nat /\ lines[p].counted \in Nat
             /\ lines[p].unitCost # Null => lines[p].unitCost \in Nat
  BY <1>1 DEF SessionLine
<1>3. ASSUME NEW p \in More(lines)
      PROVE  /\ p \in DOMAIN lines /\ Surplus(lines[p]) \in Nat \ {0}
             /\ SurplusCost(lines[p]) \in Nat
  <2>1. p \in DOMAIN lines /\ Surplus(lines[p]) > 0
    BY DEF More
  <2>2. Surplus(lines[p]) \in Nat \ {0}
    BY <1>2, <2>1 DEF Surplus
  <2>3. QtyScale \in Nat \ {0}
    BY RetailAssumption
  <2> DEFINE l == lines[p]
             rate == IF l.unitCost # Null THEN l.unitCost ELSE RoundDiv(l.value * QtyScale, l.units)
  <2>4. rate \in Nat
    <3>1. CASE l.unitCost # Null
      BY <1>2, <2>1, <3>1
    <3>2. CASE l.unitCost = Null
      <4>1. l.units > 0
        BY <1>1, <2>1, <3>2 DEF CanValue
      <4>2. l.units \in Nat \ {0} /\ l.value * QtyScale \in Nat
        BY <1>2, <2>1, <2>3, <4>1
      <4>3. RoundDiv(l.value * QtyScale, l.units) \in Nat
        BY <4>2, RoundedNat
      <4> QED
        BY <3>2, <4>3
    <3> QED
      BY <3>1, <3>2
  <2>5. SurplusCost(lines[p]) = RoundDiv(rate * Surplus(lines[p]), QtyScale)
    BY DEF SurplusCost
  <2> HIDE DEF rate
  <2>6. rate * Surplus(lines[p]) \in Nat
    BY <2>2, <2>4
  <2> QED
    BY <2>1, <2>2, <2>3, <2>5, <2>6, RoundedNat
<1>4. ASSUME NEW p \in Less(lines)
      PROVE  /\ p \in DOMAIN lines
             /\ -Surplus(lines[p]) \in Nat \ {0} /\ -Surplus(lines[p]) <= stock[w][p].units
             /\ LostCost(w, lines, p) \in Nat
  <2>1. p \in DOMAIN lines /\ Surplus(lines[p]) < 0
    BY DEF Less
  <2>2. -Surplus(lines[p]) \in Nat \ {0} /\ -Surplus(lines[p]) <= stock[w][p].units
    BY <1>1, <1>2, <2>1 DEF Surplus
  <2>3. stock[w][p] \in Stock
    BY <1>1, <2>1 DEF StockTyped
  <2>4. IssueCost(stock[w][p], -Surplus(lines[p])) \in Nat
    BY <2>2, <2>3, IssueKeeps
  <2> QED
    BY <2>1, <2>2, <2>4 DEF LostCost
<1>5. IsFiniteSet(More(lines)) /\ IsFiniteSet(Less(lines))
  <2>1. More(lines) \subseteq Products /\ Less(lines) \subseteq Products
    BY <1>1 DEF More, Less
  <2> QED
    BY <2>1, RetailAssumption, FS_Subset
<1>6. Increase(lines) \in Nat /\ Decrease(w, lines) \in Nat
  <2> DEFINE f == [p \in More(lines) |-> SurplusCost(lines[p])]
             g == [p \in Less(lines) |-> LostCost(w, lines, p)]
  <2>1. /\ DOMAIN f = More(lines) /\ \A p \in More(lines) : f[p] \in Nat
        /\ DOMAIN g = Less(lines) /\ \A p \in Less(lines) : g[p] \in Nat
    BY <1>3, <1>4
  <2>2. Increase(lines) = SumFunction(f) /\ Decrease(w, lines) = SumFunction(g)
    BY DEF Increase, Decrease
  <2> HIDE DEF f, g
  <2> QED
    BY <1>5, <2>1, <2>2, SumNat
<1>7. Adjustments(w, lines) \subseteq MoveRow
  BY <1>1, <1>3, <1>4 DEF Adjustments, Move, MoveRow
<1>8. IsFiniteSet(Adjustments(w, lines))
  <2> DEFINE e == [p \in More(lines) |-> Move("in", w, p, Surplus(lines[p]), SurplusCost(lines[p]))]
             h == [p \in Less(lines) |-> Move("out", w, p, -Surplus(lines[p]), LostCost(w, lines, p))]
             X == {e[p] : p \in More(lines)}
             Y == {h[p] : p \in Less(lines)}
  <2>1. Adjustments(w, lines) = X \cup Y
    BY DEF Adjustments
  <2> HIDE DEF e, h
  <2>2. IsFiniteSet(X) /\ IsFiniteSet(Y)
    BY <1>5, FiniteImage
  <2> HIDE DEF X, Y
  <2> QED
    BY <2>1, <2>2, FS_Union
<1>9. \A p \in DOMAIN lines :
        p \notin More(lines) /\ p \notin Less(lines) => ~(Surplus(lines[p]) > 0) /\ ~(Surplus(lines[p]) < 0)
  BY DEF More, Less
<1> QED
  BY <1>1, <1>3, <1>4, <1>6, <1>7, <1>8, <1>9 DEF Counted, w, lines

\* The movements of a count, a row each.
LEMMA AdjustmentMoves ==
  ASSUME NEW w, NEW lines, Counted(w, lines), NEW d \in Dates
  PROVE  LET M == Dated(SetToSeq(Adjustments(w, lines)), d)
         IN  /\ M \in Seq(DatedRow)
             /\ \A v, q :
                  /\ ListUnits(M, v, q, "in") = IF v = w /\ q \in More(lines) THEN Surplus(lines[q]) ELSE 0
                  /\ ListCost(M, v, q, "in") = IF v = w /\ q \in More(lines) THEN SurplusCost(lines[q]) ELSE 0
                  /\ ListUnits(M, v, q, "out") = IF v = w /\ q \in Less(lines) THEN -Surplus(lines[q]) ELSE 0
                  /\ ListCost(M, v, q, "out") = IF v = w /\ q \in Less(lines) THEN LostCost(w, lines, q) ELSE 0
<1> DEFINE A == Adjustments(w, lines)
           f == SetToSeq(A)
           M == Dated(f, d)
           In(q) == Move("in", w, q, Surplus(lines[q]), SurplusCost(lines[q]))
           Out(q) == Move("out", w, q, -Surplus(lines[q]), LostCost(w, lines, q))
<1>1. /\ f \in Seq(A)
      /\ \A x \in A : \E k \in DOMAIN f : f[k] = x
      /\ \A j, k \in DOMAIN f : f[j] = f[k] => j = k
  BY RowOfSet DEF Counted
<1>2. A \subseteq MoveRow /\ A = {In(q) : q \in More(lines)} \cup {Out(q) : q \in Less(lines)}
  BY DEF Counted, Adjustments
<1>3. \A q : /\ In(q).type = "in" /\ In(q).warehouse = w /\ In(q).product = q
             /\ In(q).units = Surplus(lines[q]) /\ In(q).cost = SurplusCost(lines[q])
             /\ Out(q).type = "out" /\ Out(q).warehouse = w /\ Out(q).product = q
             /\ Out(q).units = -Surplus(lines[q]) /\ Out(q).cost = LostCost(w, lines, q)
  BY DEF Move
<1> HIDE DEF A, f, In, Out
<1>4. f \in Seq(MoveRow) /\ \A k \in DOMAIN f : f[k] \in A
  BY <1>1, <1>2
<1>5. /\ M \in Seq(DatedRow)
      /\ \A v, q, type : /\ ListUnits(M, v, q, type) = ListUnits(f, v, q, type)
                         /\ ListCost(M, v, q, type) = ListCost(f, v, q, type)
  BY <1>4, DatedMoves
<1> HIDE DEF M
<1>6. ASSUME NEW v, NEW q
      PROVE  /\ ListUnits(f, v, q, "in") = IF v = w /\ q \in More(lines) THEN Surplus(lines[q]) ELSE 0
             /\ ListCost(f, v, q, "in") = IF v = w /\ q \in More(lines) THEN SurplusCost(lines[q]) ELSE 0
  <2>1. CASE v = w /\ q \in More(lines)
    <3>1. PICK k \in DOMAIN f : f[k] = In(q)
      BY <1>1, <1>2, <2>1
    <3>2. ListOf(f, v, q, "in") = {k}
      <4>1. k \in ListOf(f, v, q, "in")
        BY <1>3, <2>1, <3>1 DEF ListOf
      <4>2. ASSUME NEW j \in ListOf(f, v, q, "in") PROVE j = k
        <5>1. j \in DOMAIN f /\ f[j].product = q /\ f[j].type = "in"
          BY DEF ListOf
        <5>2. f[j] = In(q)
          BY <1>2, <1>3, <1>4, <5>1
        <5> QED
          BY <1>1, <3>1, <5>1, <5>2
      <4> QED
        BY <4>1, <4>2
    <3>3. /\ f[k].units = Surplus(lines[q]) /\ f[k].cost = SurplusCost(lines[q])
          /\ f[k].units \in Int /\ f[k].cost \in Int
      BY <1>3, <2>1, <3>1 DEF Counted
    <3> QED
      BY <2>1, <3>2, <3>3, ListSums
  <2>2. CASE ~(v = w /\ q \in More(lines))
    <3>1. ListOf(f, v, q, "in") = {}
      BY <1>2, <1>3, <1>4, <2>2 DEF ListOf
    <3>2. ListUnits(f, v, q, "in") = 0 /\ ListCost(f, v, q, "in") = 0
      BY <3>1, ListSums
    <3> QED
      BY <2>2, <3>2
  <2> QED
    BY <2>1, <2>2
<1>7. ASSUME NEW v, NEW q
      PROVE  /\ ListUnits(f, v, q, "out") = IF v = w /\ q \in Less(lines) THEN -Surplus(lines[q]) ELSE 0
             /\ ListCost(f, v, q, "out") = IF v = w /\ q \in Less(lines) THEN LostCost(w, lines, q) ELSE 0
  <2>1. CASE v = w /\ q \in Less(lines)
    <3>1. PICK k \in DOMAIN f : f[k] = Out(q)
      BY <1>1, <1>2, <2>1
    <3>2. ListOf(f, v, q, "out") = {k}
      <4>1. k \in ListOf(f, v, q, "out")
        BY <1>3, <2>1, <3>1 DEF ListOf
      <4>2. ASSUME NEW j \in ListOf(f, v, q, "out") PROVE j = k
        <5>1. j \in DOMAIN f /\ f[j].product = q /\ f[j].type = "out"
          BY DEF ListOf
        <5>2. f[j] = Out(q)
          BY <1>2, <1>3, <1>4, <5>1
        <5> QED
          BY <1>1, <3>1, <5>1, <5>2
      <4> QED
        BY <4>1, <4>2
    <3>3. /\ f[k].units = -Surplus(lines[q]) /\ f[k].cost = LostCost(w, lines, q)
          /\ f[k].units \in Int /\ f[k].cost \in Int
      BY <1>3, <2>1, <3>1 DEF Counted
    <3> QED
      BY <2>1, <3>2, <3>3, ListSums
  <2>2. CASE ~(v = w /\ q \in Less(lines))
    <3>1. ListOf(f, v, q, "out") = {}
      BY <1>2, <1>3, <1>4, <2>2 DEF ListOf
    <3>2. ListUnits(f, v, q, "out") = 0 /\ ListCost(f, v, q, "out") = 0
      BY <3>1, ListSums
    <3> QED
      BY <2>2, <3>2
  <2> QED
    BY <2>1, <2>2
<1> QED
  BY <1>5, <1>6, <1>7 DEF M, f, A

\* The stock of warehouse w once the count of its lines is entered.
Recounted(s, w, lines) ==
  /\ s = [v \in Warehouses |-> s[v]]
  /\ \A v \in Warehouses : v # w => s[v] = stock[v]
  /\ s[w] = [p \in Products |-> IF p \in DOMAIN lines THEN Adjusted(stock[w][p], lines[p]) ELSE stock[w][p]]

LEMMA LineRecounted ==
  ASSUME StockTyped(stock), NEW s, NEW w, NEW lines, Counted(w, lines), Recounted(s, w, lines),
         NEW p \in Products
  PROVE  /\ s[w][p] \in Stock
         /\ s[w][p].units = 0 => s[w][p].value = 0
         /\ s[w][p].units = stock[w][p].units + (IF p \in More(lines) THEN Surplus(lines[p]) ELSE 0)
                                              - (IF p \in Less(lines) THEN -Surplus(lines[p]) ELSE 0)
         /\ s[w][p].value = stock[w][p].value + (IF p \in More(lines) THEN SurplusCost(lines[p]) ELSE 0)
                                              - (IF p \in Less(lines) THEN LostCost(w, lines, p) ELSE 0)
<1>1. /\ w \in Warehouses /\ stock[w][p] \in Stock /\ (stock[w][p].units = 0 => stock[w][p].value = 0)
      /\ stock[w][p].units \in Nat /\ stock[w][p].value \in Nat
  BY DEF Counted, StockTyped, Stock
<1>2. s[w][p] = IF p \in DOMAIN lines THEN Adjusted(stock[w][p], lines[p]) ELSE stock[w][p]
  BY DEF Recounted
<1>3. CASE p \in More(lines)
  <2>1. /\ Surplus(lines[p]) \in Nat \ {0} /\ SurplusCost(lines[p]) \in Nat
        /\ p \in DOMAIN lines /\ Surplus(lines[p]) > 0 /\ p \notin Less(lines)
    BY <1>3 DEF Counted, More, Less
  <2>2. s[w][p] = ReceiveStock(stock[w][p], Surplus(lines[p]), SurplusCost(lines[p]))
    BY <1>2, <2>1 DEF Adjusted
  <2>3. /\ s[w][p] \in Stock /\ s[w][p].units = stock[w][p].units + Surplus(lines[p])
        /\ s[w][p].value = stock[w][p].value + SurplusCost(lines[p]) /\ s[w][p].units # 0
    <3> DEFINE b == stock[w][p]
               u == Surplus(lines[p])
               c == SurplusCost(lines[p])
    <3>1. b \in Stock /\ u \in Nat \ {0} /\ c \in Nat
      BY <1>1, <2>1
    <3> HIDE DEF b, u, c
    <3>2. /\ ReceiveStock(b, u, c) \in Stock /\ ReceiveStock(b, u, c).units = b.units + u
          /\ ReceiveStock(b, u, c).value = b.value + c /\ ReceiveStock(b, u, c).units # 0
      BY <3>1, ReceiveKeeps
    <3> QED
      BY <2>2, <3>2 DEF b, u, c
  <2>4. /\ s[w][p].units = stock[w][p].units + Surplus(lines[p]) - 0
        /\ s[w][p].value = stock[w][p].value + SurplusCost(lines[p]) - 0
    BY <1>1, <2>1, <2>3
  <2> QED
    BY <1>3, <2>1, <2>3, <2>4
<1>4. CASE p \in Less(lines)
  <2>1. /\ -Surplus(lines[p]) \in Nat \ {0} /\ -Surplus(lines[p]) <= stock[w][p].units
        /\ LostCost(w, lines, p) \in Nat
        /\ p \in DOMAIN lines /\ Surplus(lines[p]) < 0 /\ p \notin More(lines)
    BY <1>4 DEF Counted, More, Less
  <2>2. s[w][p] = IssueStock(stock[w][p], -Surplus(lines[p]))
    BY <1>2, <2>1 DEF Adjusted
  <2>3. /\ s[w][p] \in Stock /\ s[w][p].units = stock[w][p].units - (-Surplus(lines[p]))
        /\ s[w][p].value = stock[w][p].value - LostCost(w, lines, p)
        /\ (s[w][p].units = 0 => s[w][p].value = 0)
    BY <1>1, <2>1, <2>2, IssueKeeps DEF LostCost
  <2> QED
    BY <1>1, <1>4, <2>1, <2>3
<1>5. CASE p \notin More(lines) /\ p \notin Less(lines)
  <2>1. s[w][p] = stock[w][p]
    BY <1>2, <1>5 DEF Counted, Adjusted
  <2> QED
    BY <1>1, <1>5, <2>1
<1> QED
  BY <1>3, <1>4, <1>5

LEMMA StockRecounted ==
  ASSUME StockTyped(stock), NEW s, NEW w, NEW lines, Counted(w, lines), Recounted(s, w, lines),
         NEW d \in Dates
  PROVE  /\ StockAfter(s, Dated(SetToSeq(Adjustments(w, lines)), d))
         /\ Worth(s) = Worth(stock) + Increase(lines) - Decrease(w, lines) /\ Worth(stock) \in Int
<1> DEFINE M == Dated(SetToSeq(Adjustments(w, lines)), d)
           g == [p \in More(lines) |-> SurplusCost(lines[p])]
           h == [p \in Less(lines) |-> LostCost(w, lines, p)]
<1>1. /\ w \in Warehouses /\ stock \in [Warehouses -> [Products -> Stock]]
      /\ \A x \in Stock : x.units \in Nat /\ x.value \in Nat
  BY DEF Counted, StockTyped, Stock
<1>2. \A v, q :
        /\ ListUnits(M, v, q, "in") = IF v = w /\ q \in More(lines) THEN Surplus(lines[q]) ELSE 0
        /\ ListCost(M, v, q, "in") = IF v = w /\ q \in More(lines) THEN SurplusCost(lines[q]) ELSE 0
        /\ ListUnits(M, v, q, "out") = IF v = w /\ q \in Less(lines) THEN -Surplus(lines[q]) ELSE 0
        /\ ListCost(M, v, q, "out") = IF v = w /\ q \in Less(lines) THEN LostCost(w, lines, q) ELSE 0
  BY AdjustmentMoves
<1> HIDE DEF M
<1>3. StockTyped(s)
  <2>1. \A v \in Warehouses : v # w => s[v] = stock[v]
    BY DEF Recounted
  <2>2. \A p \in Products : s[w][p] \in Stock /\ (s[w][p].units = 0 => s[w][p].value = 0)
    BY LineRecounted
  <2>3. \A v \in Warehouses : s[v] \in [Products -> Stock]
    <3>1. s[w] = [p \in Products |-> s[w][p]]
      BY DEF Recounted
    <3>2. s[w] \in [Products -> Stock]
      BY <2>2, <3>1
    <3> QED
      BY <1>1, <2>1, <3>2
  <2>4. s \in [Warehouses -> [Products -> Stock]]
    <3>1. s = [v \in Warehouses |-> s[v]]
      BY DEF Recounted
    <3> QED
      BY <2>3, <3>1
  <2> QED
    BY <2>1, <2>2, <2>4 DEF StockTyped
<1>4. ASSUME NEW v \in Warehouses, NEW p \in Products
      PROVE  /\ s[v][p].units = stock[v][p].units + ListUnits(M, v, p, "in") - ListUnits(M, v, p, "out")
             /\ s[v][p].value = stock[v][p].value + ListCost(M, v, p, "in") - ListCost(M, v, p, "out")
  <2>1. CASE v = w
    BY <1>2, <2>1, LineRecounted
  <2>2. CASE v # w
    <3>1. s[v] = stock[v] /\ stock[v][p].units \in Nat /\ stock[v][p].value \in Nat
      BY <1>1, <2>2 DEF Recounted
    <3>2. /\ ListUnits(M, v, p, "in") = 0 /\ ListUnits(M, v, p, "out") = 0
          /\ ListCost(M, v, p, "in") = 0 /\ ListCost(M, v, p, "out") = 0
      BY <1>2, <2>2
    <3> QED
      BY <3>1, <3>2
  <2> QED
    BY <2>1, <2>2
<1>5. Revalued(stock, s, w, g, h)
  <2>1. /\ DOMAIN g = More(lines) /\ DOMAIN h = Less(lines)
        /\ More(lines) \subseteq Products /\ Less(lines) \subseteq Products
        /\ \A p \in More(lines) : g[p] = SurplusCost(lines[p]) /\ g[p] \in Int
        /\ \A p \in Less(lines) : h[p] = LostCost(w, lines, p) /\ h[p] \in Int
    BY DEF Counted, More, Less
  <2> HIDE DEF g, h
  <2>2. ASSUME NEW v \in Warehouses, NEW p \in Products
        PROVE  /\ stock[v][p].value \in Int
               /\ s[v][p].value = stock[v][p].value + (IF v = w /\ p \in DOMAIN g THEN g[p] ELSE 0)
                                                    - (IF v = w /\ p \in DOMAIN h THEN h[p] ELSE 0)
    <3>1. stock[v][p].value \in Int
      BY <1>1
    <3>2. /\ ListCost(M, v, p, "in") = IF v = w /\ p \in DOMAIN g THEN g[p] ELSE 0
          /\ ListCost(M, v, p, "out") = IF v = w /\ p \in DOMAIN h THEN h[p] ELSE 0
      BY <1>2, <2>1
    <3> QED
      BY <1>4, <3>1, <3>2
  <2> QED
    BY <2>1, <2>2 DEF Revalued
<1>6. Increase(lines) = SumFunction(g) /\ Decrease(w, lines) = SumFunction(h)
  BY DEF Increase, Decrease
<1> HIDE DEF g, h
<1>7. Worth(s) = Worth(stock) + SumFunction(g) - SumFunction(h) /\ Worth(stock) \in Int
  <2>1. w \in Warehouses /\ Revalued(stock, s, w, g, h)
    BY <1>1, <1>5
  <2>2. /\ Worth(s) = Worth(stock) + SumFunction(g) - SumFunction(h)
        /\ Worth(stock) \in Int /\ SumFunction(g) \in Int /\ SumFunction(h) \in Int
    BY <2>1, WorthRevalued
  <2> QED
    BY <2>2
<1>8. StockAfter(s, M)
  BY <1>3, <1>4 DEF StockAfter
<1> QED
  BY <1>6, <1>7, <1>8 DEF M

LEMMA FinalizeKeepsGoods ==
  ASSUME JournalInv, Unmoved, GoodsInv, NEW s \in StocktakeIds, FinalizeStocktake(s)
  PROVE  GoodsInv'
<1> DEFINE w == stocktakes[s].warehouse
           d == stocktakes[s].date
           lines == stocktakes[s].lines
           inc == Increase(lines)
           dec == Decrease(w, lines)
           A == Adjustments(w, lines)
           M == Dated(SetToSeq(A), d)
           new == stock'[w]
<1>1. /\ stocktakes[s].status = "draft"
      /\ \A p \in DOMAIN lines : lines[p].counted # Null /\ CanValue(lines[p])
      /\ stock' = [stock EXCEPT ![w] = [p \in Products |->
           IF p \in DOMAIN lines THEN Adjusted(@[p], lines[p]) ELSE @[p]]]
      /\ movements' = [movements EXCEPT ![s] = M]
      /\ \/ inc + dec > 0 /\ Journal("stocktake", s, d, VarianceLines(inc, dec))
         \/ inc + dec = 0 /\ UNCHANGED journals
      /\ stocktakes' = [stocktakes EXCEPT ![s].status = "posted"]
      /\ UNCHANGED <<invoices, closed>>
  BY DEF FinalizeStocktake, CanFinalize
<1>2. /\ StockTyped(stock) /\ EntriesInv /\ InventoryAgrees
      /\ stock \in [Warehouses -> [Products -> Stock]] /\ movements[s] = <<>> /\ s \in Documents
  BY <1>1 DEF GoodsInv, InventoryInv, StockTyped, Unmoved, Documents
<1>3. DraftSound(s) /\ SessionRow(stocktakes[s]) /\ DOMAIN stocktakes = StocktakeIds
  BY <1>1 DEF GoodsInv, SessionInv
<1>4. w \in Warehouses /\ d \in Dates
      /\ \A t \in StocktakeIds : stocktakes[t].status = "draft" /\ stocktakes[t].warehouse = w => t = s
  BY <1>3 DEF DraftSound
<1>5. Counted(w, lines)
  BY <1>1, <1>2, <1>3, SessionCounted
<1>6. Recounted(stock', w, lines)
  <2>1. DOMAIN stock = Warehouses /\ stock = [v \in Warehouses |-> stock[v]]
    BY <1>2
  <2> QED
    BY <1>1, <1>4, <2>1 DEF Recounted
<1>7. inc \in Nat /\ dec \in Nat
  BY <1>5 DEF Counted
<1>8. M \in Seq(DatedRow)
  BY <1>4, <1>5, AdjustmentMoves
<1>9. /\ StockAfter(stock', M)
      /\ Worth(stock') = Worth(stock) + inc - dec /\ Worth(stock) \in Int
  BY <1>2, <1>4, <1>5, <1>6, StockRecounted
<1>10. /\ stocktakes'[s].status = "posted" /\ SessionRow(stocktakes[s])'
       /\ DOMAIN stocktakes' = StocktakeIds
       /\ \A t \in StocktakeIds \ {s} : stocktakes'[t] = stocktakes[t]
  <2> DEFINE old == stocktakes[s]
             row == [old EXCEPT !.status = "posted"]
  <2>1. stocktakes'[s] = row
    BY <1>1, <1>3
  <2>2. SessionRow(old)
    BY <1>3
  <2> HIDE DEF old
  <2>3. row.status = "posted" /\ SessionRow(row)
    BY <2>2 DEF SessionRow
  <2> HIDE DEF row
  <2>4. SessionRow(stocktakes'[s])
    BY <2>1, <2>3
  <2> QED
    BY <1>1, <1>3, <2>1, <2>3, <2>4 DEF SessionRow
<1> HIDE DEF inc, dec, A, M, lines, w, d
<1>11. /\ EntriesInv' /\ Balance("inventory") \in Int
       /\ Balance("inventory")' = Balance("inventory") + (inc - dec)
       /\ \A t : s # t /\ Unposted("stocktake", t) => Unposted("stocktake", t)'
  <2>1. CASE inc + dec > 0 /\ Journal("stocktake", s, d, VarianceLines(inc, dec))
    <3>1. Entry(VarianceLines(inc, dec))["inventory"] = inc - dec /\ inc - dec \in Int
      BY <1>7, VarianceEntry
    <3>2. /\ Unposted("stocktake", s)
          /\ journals' = journals \cup {Posting("stocktake", s, d, VarianceLines(inc, dec))}
      BY <2>1 DEF Journal
    <3> DEFINE L == VarianceLines(inc, dec)
    <3> HIDE DEF L
    <3>3. /\ EntriesInv' /\ Balance("inventory") \in Int
          /\ Balance("inventory")' = Balance("inventory") + Entry(L)["inventory"]
          /\ \A t : s # t /\ Unposted("stocktake", t) => Unposted("stocktake", t)'
      BY <1>2, <3>1, <3>2, InventoryPosted DEF L
    <3> QED
      BY <3>1, <3>3 DEF L
  <2>2. CASE inc + dec = 0 /\ UNCHANGED journals
    <3>1. inc - dec = 0 /\ Balance("inventory") \in Int
      BY <1>2, <1>7, <1>9, <2>2 DEF InventoryAgrees, Worth
    <3>2. BooksAside
      BY <1>2, <2>2, AsideKept
    <3> QED
      BY <3>1, <3>2 DEF BooksAside
  <2> QED
    BY <1>1, <2>1, <2>2
<1>12. InventoryInv'
  <2>1. Balance("inventory") = Worth(stock)
    BY <1>2 DEF InventoryAgrees, Worth
  <2>2. Balance("inventory")' = Worth(stock')
    BY <1>7, <1>9, <1>11, <2>1
  <2> QED
    BY <1>1, <1>2, <1>8, <1>9, <1>11, <2>2, StockMoved DEF GoodsInv
<1>13. ItemsMoved' /\ FullReturnRestoresCost'
  <2>1. \A b \in InvoiceIds : movements'[b] = movements[b]
    BY <1>1, RetailAssumption DEF GoodsInv, InventoryInv, Documented, Documents
  <2> QED
    BY <1>1, <2>1, RestoreKept DEF GoodsInv
<1>14. ASSUME NEW t \in StocktakeIds \ {s}, stocktakes[t].status = "draft" PROVE DraftSound(t)'
  <2>1. DraftSound(t) /\ stocktakes'[t] = stocktakes[t] /\ stocktakes[t].warehouse # w
    BY <1>4, <1>10, <1>14 DEF GoodsInv, SessionInv
  <2>2. stock'[stocktakes[t].warehouse] = stock[stocktakes[t].warehouse]
    BY <1>6, <2>1 DEF Recounted, DraftSound
  <2>3. ASSUME NEW u \in StocktakeIds, stocktakes'[u].status = "draft",
               stocktakes'[u].warehouse = stocktakes'[t].warehouse
        PROVE  u = t
    BY <1>10, <2>1, <2>3 DEF DraftSound
  <2> QED
    BY <1>1, <2>1, <2>2, <2>3 DEF DraftSound, Open
<1>15. ASSUME NEW t \in StocktakeIds
       PROVE  /\ SessionRow(stocktakes[t])'
              /\ stocktakes'[t].status \in {"absent", "draft", "posted"}
              /\ stocktakes'[t].status # "posted" => Unposted("stocktake", t)'
              /\ stocktakes'[t].status = "draft" => DraftSound(t)'
  <2>1. CASE t = s
    BY <1>10, <2>1
  <2>2. CASE t # s
    <3>1. stocktakes'[t] = stocktakes[t]
      BY <1>10, <2>2
    <3>2. SessionRow(stocktakes[t])'
      BY <3>1 DEF GoodsInv, SessionInv, SessionRow
    <3> QED
      BY <1>11, <1>14, <2>2, <3>1, <3>2 DEF GoodsInv, SessionInv
  <2> QED
    BY <2>1, <2>2
<1>16. SessionInv'
  BY <1>10, <1>15 DEF SessionInv
<1> QED
  BY <1>12, <1>13, <1>16 DEF GoodsInv

\* The journal of a count has two lines at least and balances.
LEMMA VariancePostable ==
  ASSUME NEW x \in Nat, NEW y \in Nat, x + y > 0
  PROVE  Postable(VarianceLines(x, y))
<1> DEFINE lines == VarianceLines(x, y)
           N == {k \in DOMAIN lines : lines[k].amount # 0}
<1>1. /\ DOMAIN lines = 1 .. 4 /\ lines[1].amount = x /\ lines[2].amount = -x
      /\ lines[3].amount = y /\ lines[4].amount = -y
  BY DEF VarianceLines, Line
<1> HIDE DEF lines
<1>2. IsFiniteSet(N) /\ Cardinality(N) \in Nat
  <2>1. IsFiniteSet(DOMAIN lines) /\ N \in SUBSET DOMAIN lines
    <3>1. PICK n \in Nat : DOMAIN lines = 1 .. n
      BY <1>1
    <3> QED
      BY <3>1, FS_Interval
  <2>2. IsFiniteSet(N)
    BY <2>1, FS_Subset
  <2> QED
    BY <2>2, FS_CardinalityType
<1>3. \A j, k \in N : j # k => Cardinality(N) >= 2
  <2> SUFFICES ASSUME NEW j \in N, NEW k \in N, j # k PROVE Cardinality(N) >= 2
    OBVIOUS
  <2>1. IsFiniteSet({j}) /\ Cardinality({j}) = 1
    BY FS_Singleton
  <2>2. Cardinality({j} \cup {k}) = 2
    BY <2>1, FS_AddElement
  <2>3. {j} \cup {k} \in SUBSET N
    OBVIOUS
  <2>4. Cardinality({j} \cup {k}) <= Cardinality(N)
    BY <1>2, <2>3, FS_Subset
  <2> QED
    BY <1>2, <2>2, <2>4
<1>4. Cardinality(N) >= 2
  <2>1. CASE x > 0
    <3>1. 1 \in N /\ 2 \in N
      BY <1>1, <2>1
    <3> QED
      BY <1>3, <3>1
  <2>2. CASE y > 0
    <3>1. 3 \in N /\ 4 \in N
      BY <1>1, <2>2
    <3> QED
      BY <1>3, <3>1
  <2> QED
    BY <2>1, <2>2
<1> DEFINE f(n) == [k \in 1 .. n |-> lines[k].amount]
<1>5. /\ \A k \in 1 .. 4 : lines[k].amount \in Int
      /\ SumFunction(f(4)) = SumFunction([k \in DOMAIN lines |-> lines[k].amount])
  BY <1>1
<1>6. ASSUME NEW n \in 1 .. 3
      PROVE  SumFunction(f(n + 1)) = SumFunction(f(n)) + lines[n + 1].amount
  <2> DEFINE g == f(n)
             h == f(n + 1)
             z == n + 1
  <2>1. /\ IsFiniteSet(DOMAIN g) /\ z \notin DOMAIN g
        /\ DOMAIN h = DOMAIN g \/ DOMAIN h = DOMAIN g \cup {z}
        /\ \A k \in DOMAIN g : g[k] \in Int /\ h[k] = g[k]
        /\ z \in DOMAIN h => h[z] \in Int
    <3>1. DOMAIN g = 1 .. n /\ DOMAIN h = 1 .. n + 1 /\ IsFiniteSet(1 .. n)
      BY FS_Interval
    <3>2. n \in {1, 2, 3}
      OBVIOUS
    <3>3. z \notin 1 .. n /\ 1 .. n + 1 = (1 .. n) \cup {z}
      OBVIOUS
    <3>4. \A k \in 1 .. n : g[k] \in Int /\ h[k] = g[k]
      BY <1>5, <3>2
    <3>5. h[z] \in Int
      BY <1>5, <3>2
    <3> HIDE DEF g, h, z
    <3> QED
      BY <3>1, <3>3, <3>4, <3>5
  <2>2. h[z] = lines[z].amount /\ z \in DOMAIN h
    OBVIOUS
  <2> HIDE DEF g, h, z
  <2>3. SumFunction(h) = SumFunction(g) + ValueAt(h, z)
    BY <2>1, SumGrown
  <2> QED
    BY <2>2, <2>3 DEF ValueAt, g, h, z
<1>7. SumFunction(f(1)) = x
  <2> DEFINE g == f(1)
  <2>1. DOMAIN g = {1} /\ g[1] = x /\ g[1] \in Int
    BY <1>1
  <2> HIDE DEF g
  <2>2. SumFunction(g) = x
    BY <2>1, SumOne
  <2> QED
    BY <2>2 DEF g
<1>8. SumFunction(f(4)) = 0
  <2> HIDE DEF f
  <2>1. SumFunction(f(2)) = SumFunction(f(1)) + lines[2].amount
    BY <1>6
  <2>2. SumFunction(f(3)) = SumFunction(f(2)) + lines[3].amount
    BY <1>6
  <2>3. SumFunction(f(4)) = SumFunction(f(3)) + lines[4].amount
    BY <1>6
  <2> QED
    BY <1>1, <1>7, <2>1, <2>2, <2>3
<1> QED
  BY <1>4, <1>5, <1>8 DEF Postable, lines

LEMMA SessionFinishes ==
  ASSUME StockTyped(stock), SessionInv
  PROVE  CountedSessionFinishes
<1> SUFFICES ASSUME NEW s \in StocktakeIds, stocktakes[s].status = "draft",
                    stocktakes[s].lines # <<>>,
                    \A p \in DOMAIN stocktakes[s].lines :
                      /\ stocktakes[s].lines[p].counted # Null
                      /\ CanValue(stocktakes[s].lines[p])
             PROVE  CanFinalize(s)
  BY DEF CountedSessionFinishes
<1> DEFINE w == stocktakes[s].warehouse
           lines == stocktakes[s].lines
           inc == Increase(lines)
           dec == Decrease(w, lines)
<1>1. DraftSound(s) /\ Unposted("stocktake", s)
  BY DEF SessionInv
<1>2. Counted(w, lines)
  BY <1>1, SessionCounted
<1>3. inc \in Nat /\ dec \in Nat
  BY <1>2 DEF Counted
<1>4. \A p \in DOMAIN lines : stock[w][p] = [units |-> lines[p].units, value |-> lines[p].value]
  BY <1>1 DEF DraftSound, StockTyped, Stock
<1>5. inc + dec > 0 => Postable(VarianceLines(inc, dec))
  BY <1>3, VariancePostable
<1>6. Open(stocktakes[s].date)
  BY <1>1 DEF DraftSound
<1> QED
  BY <1>1, <1>4, <1>5, <1>6 DEF CanFinalize

LEMMA GoodsAtFirst ==
  ASSUME Init
  PROVE  GoodsInv
<1>1. /\ stock = [w \in Warehouses |-> [p \in Products |-> NoStock]]
      /\ movements = [doc \in Documents |-> <<>>]
      /\ journals = {}
      /\ \A i \in InvoiceIds : invoices[i].kind = "none" /\ invoices[i].items = <<>>
      /\ stocktakes = [s \in StocktakeIds |-> NoStocktake]
  BY DEF Init, NoInvoice
<1>2. NoStock \in Stock /\ NoStock.units = 0 /\ NoStock.value = 0
  BY DEF NoStock, Stock
<1>3. StockTyped(stock)
  BY <1>1, <1>2 DEF StockTyped
<1>4. MovementRows = {}
  BY <1>1 DEF MovementRows
<1>5. Documented
  <2>1. movements \in [Documents -> Seq(DatedRow)]
    <3>1. <<>> \in Seq(DatedRow)
      OBVIOUS
    <3> QED
      BY <1>1, <3>1
  <2> QED
    BY <1>4, <2>1, FS_EmptySet DEF Documented
<1>6. \A w, p, type : UnitsMoved(MovementRows, w, p, type) = 0 /\ ValueMoved(MovementRows, w, p, type) = 0
  <2> SUFFICES ASSUME NEW w, NEW p, NEW type
               PROVE  UnitsMoved(MovementRows, w, p, type) = 0 /\ ValueMoved(MovementRows, w, p, type) = 0
    OBVIOUS
  <2> DEFINE R == MovementsOf(MovementRows, w, p, type)
             f == [row \in R |-> Movement(row).units]
             g == [row \in R |-> Movement(row).cost]
  <2>1. R = {}
    BY <1>4 DEF MovementsOf
  <2>2. DOMAIN f = {} /\ DOMAIN g = {}
    BY <2>1
  <2>3. /\ UnitsMoved(MovementRows, w, p, type) = SumFunction(f)
        /\ ValueMoved(MovementRows, w, p, type) = SumFunction(g)
    BY DEF UnitsMoved, ValueMoved
  <2> HIDE DEF f, g
  <2> QED
    BY <2>2, <2>3, SumNothing
<1>7. Worth(stock) = 0
  <2> DEFINE S == Warehouses \X Products
             f == [wp \in S |-> stock[wp[1]][wp[2]].value]
  <2>1. DOMAIN f = S /\ \A wp \in S : f[wp] = 0
    BY <1>1, <1>2
  <2>2. Worth(stock) = SumFunction(f) /\ IsFiniteSet(S)
    BY PlacesFinite DEF Worth
  <2> HIDE DEF f, S
  <2> QED
    BY <2>1, <2>2, SumZero
<1>8. InventoryAgrees
  <2>1. Balance("inventory") = Worth(stock)
    BY <1>7, NothingYet
  <2>2. \A w \in Warehouses, p \in Products : stock[w][p].units = 0 /\ stock[w][p].value = 0
    BY <1>1, <1>2
  <2> QED
    BY <1>6, <2>1, <2>2 DEF InventoryAgrees, Worth
<1>9. InventoryInv
  BY <1>1, <1>3, <1>5, <1>8 DEF InventoryInv, EntriesInv
<1>10. ItemsMoved
  <2> SUFFICES ASSUME NEW i \in InvoiceIds, NEW p \in Products
               PROVE  MovedUnits(movements[i], p) = Units(invoices[i].items, p)
    BY DEF ItemsMoved
  <2>1. movements[i] = <<>> /\ invoices[i].items = <<>>
    BY <1>1 DEF Documents
  <2> DEFINE f == [k \in MovesOf(movements[i], p) |-> movements[i][k].units]
             g == [k \in {k \in DOMAIN invoices[i].items : invoices[i].items[k].item = p} |->
                     invoices[i].items[k].units]
  <2>2. MovedUnits(movements[i], p) = SumFunction(f) /\ Units(invoices[i].items, p) = SumFunction(g)
    BY DEF MovedUnits, Units
  <2>3. DOMAIN f = {} /\ DOMAIN g = {}
    BY <2>1 DEF MovesOf
  <2> HIDE DEF f, g
  <2> QED
    BY <2>2, <2>3, SumNothing
<1>11. FullReturnRestoresCost
  BY <1>1 DEF FullReturnRestoresCost, SoldOf
<1>12. SessionInv
  BY <1>1 DEF SessionInv, SessionRow, NoStocktake, Unposted
<1> QED
  BY <1>9, <1>10, <1>11, <1>12 DEF GoodsInv

LEMMA GoodsInvHolds == Spec => []GoodsInv
<1>1. Init => GoodsInv
  BY GoodsAtFirst
<1>2. MoneyInv /\ PeriodInv /\ GoodsInv /\ [Next]_vars => GoodsInv'
  <2> SUFFICES ASSUME MoneyInv, PeriodInv, GoodsInv, [Next]_vars PROVE GoodsInv'
    OBVIOUS
  <2>1. JournalInv /\ InvoiceInv /\ Unmoved
    BY DEF MoneyInv, PeriodInv
  <2>2. ASSUME MoneyCommand PROVE GoodsInv'
    BY <2>1, <2>2, MoneyKeepsGoods
  <2>3. ASSUME NEW d \in Dates, NEW i \in InvoiceIds, NEW form \in InvoiceForms,
               NEW o \in InvoiceIds \cup {None}, NEW w \in Warehouses,
               NEW account \in CashAccounts, IssueInvoice(i, form, o, w, d, account)
        PROVE  GoodsInv'
    BY <2>1, <2>3, IssueKeepsGoods
  <2>4. ASSUME NEW d \in Dates, PostTransaction(d) PROVE GoodsInv'
    BY <2>2, <2>4 DEF MoneyCommand
  <2>5. ASSUME NEW d \in Dates, NEW e \in ExpenseIds, NEW income \in BOOLEAN,
               NEW account \in CashAccounts, NEW n \in CashAmounts,
               PostExpense(e, income, account, n, d)
        PROVE  GoodsInv'
    BY <2>2, <2>5 DEF MoneyCommand
  <2>6. ASSUME NEW d \in Dates, NEW c \in ChequeIds, NEW direction \in {"inbound", "outbound"},
               NEW n \in CashAmounts, PostCheque(c, direction, n, d)
        PROVE  GoodsInv'
    BY <2>2, <2>6 DEF MoneyCommand
  <2>7. ASSUME NEW d \in Dates, NEW c \in ChequeIds,
               NEW status \in {"cleared", "bounced", "returned", "spent"},
               NEW account \in CashAccounts, ChangeChequeStatus(c, status, account, d)
        PROVE  GoodsInv'
    BY <2>2, <2>7 DEF MoneyCommand
  <2>8. ASSUME NEW d \in Dates, NEW t \in TransferIds, NEW from \in Warehouses, NEW to \in Warehouses,
               NEW p \in Products, NEW units \in Quantities, TransferStock(t, from, to, p, units, d)
        PROVE  GoodsInv'
    BY <2>1, <2>8, TransferKeepsGoods
  <2>9. ASSUME NEW d \in Dates, NEW s \in StocktakeIds, NEW w \in Warehouses, NewStocktake(s, w, d)
        PROVE  GoodsInv'
    BY <2>9, NewStocktakeKeepsGoods
  <2>10. ASSUME NEW s \in StocktakeIds, NEW p \in Products, NEW units \in Quantities,
                NEW unitCost \in UnitCosts \cup {Null}, CountStocktake(s, p, units, unitCost)
         PROVE  GoodsInv'
    BY <2>10, CountKeepsGoods
  <2>11. ASSUME NEW s \in StocktakeIds, FinalizeStocktake(s) PROVE GoodsInv'
    BY <2>1, <2>11, FinalizeKeepsGoods
  <2>12. ASSUME NEW p \in Periods, ClosePeriod(p) PROVE GoodsInv'
    BY <2>12, CloseKeepsGoods
  <2>13. CASE UNCHANGED vars
    BY <2>13, NothingKeepsGoods
  <2> QED
    BY <2>3, <2>4, <2>5, <2>6, <2>7, <2>8, <2>9, <2>10, <2>11, <2>12, <2>13 DEF Next
<1> QED
  BY <1>1, <1>2, MoneyInvHolds, PeriodInvHolds, PTL DEF Spec

(* GoodsAgree: in every order of purchases, sales, returns, transfers and  *)
(* stocktakes, of any number and any rounding, the stock of each warehouse *)
(* is what its movements add up to, the inventory account its worth, a     *)
(* sale that came back whole has restored the cost it took, and a fully    *)
(* counted stocktake can be finished, whatever was posted, moved or closed *)
(* since it was opened.                                                    *)
THEOREM GoodsCorrect == Spec => []GoodsAgree
<1>1. GoodsInv => GoodsAgree
  BY SessionFinishes DEF GoodsInv, InventoryInv, GoodsAgree
<1> QED
  BY <1>1, GoodsInvHolds, PTL
=============================================================================
