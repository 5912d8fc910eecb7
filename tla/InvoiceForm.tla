---------------------------- MODULE InvoiceForm ----------------------------
(***************************************************************************)
(* One invoice in the form of InvoiceFormView: every change of a field     *)
(* recalculates the rows and the summary the user sees, and saving hands   *)
(* the rows to InvoiceController, which calculates the invoice a second    *)
(* time with code of its own.                                              *)
(*                                                                         *)
(* Only digits are typed (NumberInput).  A save that the services refuse   *)
(* changes nothing here.  Which windows are open over the form is module   *)
(* EntryForms; numbers and stock are module InvoiceDesk.                  *)
(***************************************************************************)
EXTENDS RetailFinanceCore, SequencesExt

CONSTANTS
  Products, Kinds,
  SellPrice,            \* sellPrice of each product
  Qtys, Prices, Amounts, Percents, Rates,   \* numbers the user types
  MaxRows,              \* bound: rows of the form
  MaxEdits,             \* bound: changes of a field, over all openings
  None

\* What the constants must be; the module that instantiates this one assumes it.
NumbersAssumption ==
  /\ UNION {Qtys, Prices, Amounts, Percents, Rates} \subseteq Nat
  /\ SellPrice \in [Products -> Nat]
  /\ MaxRows \in Nat /\ MaxEdits \in Nat

VARIABLES
  open,                 \* the form is open
  rows,                 \* ctx.data.items
  fields,               \* the fields below the rows
  totals,               \* ctx.totals, the summary on the screen
  saved,                \* the invoice saved last
  edits                 \* changes made so far

vars == <<open, rows, fields, totals, saved, edits>>

\* input is discountInput, None while it is undefined; shown is the text of the
\* discount field.
EmptyItem == [product |-> None, qty |-> 1, price |-> 0, type |-> "fixed",
              discount |-> 0, input |-> None, shown |-> 0]

NewFields == [kind |-> "sale", pre |-> FALSE, contact |-> FALSE, type |-> "fixed",
              discount |-> 0, vat |-> FALSE, rate |-> 10, payment |-> "cash", paid |-> 0]

NoTotals == [subtotal |-> 0, discount |-> 0, vat |-> 0, grand |-> 0, paid |-> 0, remaining |-> 0]

AtMost(n, top) == IF n > top THEN top ELSE n

-----------------------------------------------------------------------------
(* The calculation of the form.                                            *)

Subtotal(row) == row.qty * row.price
LineTotal(row) == Subtotal(row) - row.discount

\* The percentage or the amount, never more than what it is taken off.
DiscountOf(type, n, total) == AtMost(IF type = "percent" THEN RoundDiv(total * n, 100) ELSE n, total)

\* discountInput, once it is set, hides what _onFieldChange put in discount.
RecalcRow(row) ==
  LET input == IF row.input = None THEN row.discount ELSE row.input
  IN  [row EXCEPT !.input = input, !.discount = DiscountOf(row.type, input, Subtotal(row))]

PaidOf(payment, typed, grand) ==
  CASE payment = "cash" -> grand
    [] payment = "credit" -> 0
    [] payment = "partial" -> AtMost(typed, grand)

Summary(rs, f) ==
  LET subtotal == SumFunction([i \in DOMAIN rs |-> LineTotal(rs[i])])
      discount == DiscountOf(f.type, f.discount, subtotal)
      vat == IF f.vat /\ f.kind # "non_formal"
             THEN RoundDiv((subtotal - discount) * f.rate, 100) ELSE 0
      grand == subtotal - discount + vat
      paid == PaidOf(f.payment, f.paid, grand)
  IN  [subtotal |-> subtotal, discount |-> discount, vat |-> vat, grand |-> grand,
       paid |-> paid, remaining |-> grand - paid]

\* The discount field as a row that is rendered anew shows it.
Rendered(row) ==
  [row EXCEPT !.shown = IF row.type = "fixed" THEN row.discount
                        ELSE IF row.input = None THEN 0 ELSE row.input]

RenderItems(rs) == [i \in DOMAIN rs |-> Rendered(rs[i])]

Recalc(rs, f) ==
  LET new == [i \in DOMAIN rs |-> RecalcRow(rs[i])]
  IN  /\ rows' = new
      /\ fields' = f
      /\ totals' = Summary(new, f)

-----------------------------------------------------------------------------
(* The user at the form.                                                   *)

OpenNew ==
  /\ ~open
  /\ open' = TRUE
  /\ Recalc(<<EmptyItem>>, NewFields)
  /\ UNCHANGED <<saved, edits>>

\* A rate of zero is shown as 10 ('d.vatRate || 10').
ShownRate(rate) == IF rate = 0 THEN 10 ELSE rate

FieldsOf(inv) ==
  [kind |-> inv.kind, pre |-> inv.pre, contact |-> TRUE, type |-> inv.type, discount |-> inv.discountInput,
   vat |-> inv.vatOn, rate |-> ShownRate(inv.rate), payment |-> inv.payment, paid |-> inv.paid]

ItemsOf(inv) == RenderItems([i \in DOMAIN inv.items |-> [shown |-> 0] @@ inv.items[i]])

\* Editing what was saved; with retail finance only a pre-invoice can be saved again.
OpenEdit ==
  /\ ~open /\ saved # None
  /\ open' = TRUE
  /\ Recalc(ItemsOf(saved), FieldsOf(saved))
  /\ UNCHANGED <<saved, edits>>

Close ==
  /\ open
  /\ open' = FALSE
  /\ rows' = <<>> /\ fields' = NewFields /\ totals' = NoTotals
  /\ UNCHANGED <<saved, edits>>

Change(rs, f) ==
  /\ open /\ edits < MaxEdits
  /\ edits' = edits + 1
  /\ Recalc(rs, f)
  /\ UNCHANGED <<open, saved>>

AddRow ==
  /\ Len(rows) < MaxRows
  /\ Change(RenderItems(Append(rows, EmptyItem)), fields)

RemoveRow(i) ==
  /\ Len(rows) > 1
  /\ Change(RenderItems(RemoveAt(rows, i)), fields)

ChooseProduct(i, p) ==
  Change([rows EXCEPT ![i] = [@ EXCEPT !.product = p, !.price = SellPrice[p]]], fields)

\* Typing in the search field takes the product off the row, the price stays.
SearchProduct(i) == Change([rows EXCEPT ![i].product = None], fields)

TypeQty(i, n) == Change([rows EXCEPT ![i].qty = n], fields)
TypePrice(i, n) == Change([rows EXCEPT ![i].price = n], fields)
TypeRowDiscount(i, n) == Change([rows EXCEPT ![i] = [@ EXCEPT !.discount = n, !.shown = n]], fields)
ChooseRowType(i, t) ==
  Change([rows EXCEPT ![i] = [@ EXCEPT !.type = t, !.discount = 0, !.input = 0, !.shown = 0]], fields)

ChooseKind(k) ==
  Change(rows, [fields EXCEPT !.kind = k, !.vat = @ /\ k # "non_formal"])

ChooseContact(chosen) == Change(rows, [fields EXCEPT !.contact = chosen])
TickPreInvoice == Change(rows, [fields EXCEPT !.pre = ~@])
ChooseDiscountType(t) == Change(rows, [fields EXCEPT !.type = t, !.discount = 0])
TypeDiscount(n) == Change(rows, [fields EXCEPT !.discount = n])
TickVat == fields.kind # "non_formal" /\ Change(rows, [fields EXCEPT !.vat = ~@])
TypeRate(n) == Change(rows, [fields EXCEPT !.rate = n])
ChoosePayment(m) ==
  Change(rows, [fields EXCEPT !.payment = m, !.paid = IF m = "partial" THEN @ ELSE 0])
TypePaid(n) == fields.payment = "partial" /\ Change(rows, [fields EXCEPT !.paid = n])

\* A product made on the spot goes to the first row without one, or to a new row.
QuickProduct(p) ==
  LET empty == {i \in DOMAIN rows : rows[i].product = None}
      target == IF empty = {} THEN Len(rows) + 1 ELSE Min(empty)
      rs == IF empty = {} THEN Append(rows, EmptyItem) ELSE rows
  IN  /\ target <= MaxRows
      /\ Change(RenderItems([rs EXCEPT ![target] =
                  [@ EXCEPT !.product = p, !.price = SellPrice[p], !.qty = IF @ = 0 THEN 1 ELSE @]]), fields)

-----------------------------------------------------------------------------
(* InvoiceController.save.                                                 *)

\* The amount the form put in discount is taken for what the user typed.
SavedItem(row) ==
  [product |-> row.product, qty |-> row.qty, price |-> row.price, type |-> row.type,
   input |-> row.discount, discount |-> DiscountOf(row.type, row.discount, Subtotal(row))]

\* Mutant: what the summary says, though the total may be smaller.
SavedPaidOfSummary(grand) == totals.paid

SavedPaid(grand) == AtMost(totals.paid, grand)

SavedVat(subtotal, discount) ==
  IF fields.vat /\ fields.kind # "non_formal"
  THEN RoundDiv((subtotal - discount) * fields.rate, 100) ELSE 0

SavedDiscount(subtotal) ==
  AtMost(IF fields.type = "percent" THEN RoundDiv(subtotal * fields.discount, 100) ELSE fields.discount,
         subtotal)

SavedInvoice(lines) ==
  LET items == [i \in DOMAIN lines |-> SavedItem(lines[i])]
      subtotal == SumFunction([i \in DOMAIN items |-> LineTotal(items[i])])
      discount == SavedDiscount(subtotal)
      vat == SavedVat(subtotal, discount)
      grand == subtotal - discount + vat
      paid == SavedPaid(grand)
  IN  [items |-> items, kind |-> fields.kind, pre |-> fields.pre, type |-> fields.type,
       discountInput |-> fields.discount, vatOn |-> fields.vat, rate |-> fields.rate,
       payment |-> fields.payment,
       totals |-> [subtotal |-> subtotal, discount |-> discount, vat |-> vat, grand |-> grand,
                   paid |-> paid, remaining |-> IF paid > grand THEN 0 ELSE grand - paid],
       paid |-> paid]

Valid(row) == row.product # None /\ row.qty > 0

\* Rows without a product or a quantity are left out; the summary was of all rows.
Save ==
  LET lines == SelectSeq(rows, Valid)
  IN  /\ open /\ fields.contact /\ lines # <<>>
      /\ saved' = SavedInvoice(lines)
      /\ open' = FALSE
      /\ rows' = <<>> /\ fields' = NewFields /\ totals' = NoTotals
      /\ UNCHANGED edits

-----------------------------------------------------------------------------
Init ==
  /\ open = FALSE
  /\ rows = <<>> /\ fields = NewFields /\ totals = NoTotals
  /\ saved = None
  /\ edits = 0

ChangeRow(i) ==
  \/ RemoveRow(i)
  \/ \E p \in Products : ChooseProduct(i, p)
  \/ SearchProduct(i)
  \/ \E n \in Qtys : TypeQty(i, n)
  \/ \E n \in Prices : TypePrice(i, n)
  \/ \E n \in IF rows[i].type = "fixed" THEN Amounts ELSE Percents : TypeRowDiscount(i, n)
  \/ \E t \in {"fixed", "percent"} : ChooseRowType(i, t)

ChangeField ==
  \/ \E k \in Kinds : ChooseKind(k)
  \/ \E chosen \in BOOLEAN : ChooseContact(chosen)
  \/ TickPreInvoice
  \/ \E t \in {"fixed", "percent"} : ChooseDiscountType(t)
  \/ \E n \in IF fields.type = "fixed" THEN Amounts ELSE Percents : TypeDiscount(n)
  \/ TickVat
  \/ \E n \in Rates : TypeRate(n)
  \/ \E m \in {"cash", "credit", "partial"} : ChoosePayment(m)
  \/ \E n \in Amounts : TypePaid(n)

Next ==
  \/ OpenNew \/ OpenEdit \/ Close \/ Save
  \/ AddRow
  \/ \E i \in DOMAIN rows : ChangeRow(i)
  \/ ChangeField
  \/ \E p \in Products : QuickProduct(p)

Spec == Init /\ [][Next]_vars

-----------------------------------------------------------------------------
(* Properties.                                                             *)

Totals == [subtotal : Nat, discount : Nat, vat : Nat, grand : Nat, paid : Nat, remaining : Nat]

\* Every row has numbers and a type of discount, and the summary, the fields
\* and the saved invoice are what the form and the controller make.
TypeOK ==
  /\ open \in BOOLEAN /\ edits \in 0 .. MaxEdits
  /\ totals \in Totals
  /\ Len(rows) <= MaxRows /\ open = (rows # <<>>)
  /\ \A i \in DOMAIN rows :
       /\ rows[i].product \in Products \cup {None}
       /\ rows[i].type \in {"fixed", "percent"}
       /\ {rows[i].qty, rows[i].price, rows[i].discount, rows[i].input, rows[i].shown} \subseteq Nat
  /\ saved # None => saved.totals \in Totals

\* assertInvoiceTotals, the check of the posting service.
AssertInvoiceTotals(inv) ==
  LET t == inv.totals
  IN  /\ inv.items # <<>>
      /\ \A i \in DOMAIN inv.items : inv.items[i].qty > 0 /\ LineTotal(inv.items[i]) >= 0
      /\ t.subtotal = SumFunction([i \in DOMAIN inv.items |-> LineTotal(inv.items[i])])
      /\ t.discount <= t.subtotal
      /\ t.grand = t.subtotal - t.discount + t.vat
      /\ t.paid <= t.grand

\* Whatever is typed in the form, InvoiceController makes an invoice that the
\* posting service does not refuse for its totals.
TotalsAccepted == saved # None => AssertInvoiceTotals(saved)

\* A cash invoice is saved with nothing left to pay, though the paid amount is
\* taken from the summary and the total is calculated from fewer rows.
CashIsPaid == saved # None /\ saved.payment = "cash" => saved.totals.remaining = 0

\* Of a part payment as much is saved as was typed and the invoice can take.
PartPaymentKept ==
  [][saved' # saved /\ fields.payment = "partial" => saved'.paid = AtMost(fields.paid, saved'.totals.grand)]_vars

\* With every row complete, form and controller agree on every total.
CompleteIsShown ==
  [][saved' # saved /\ (\A i \in DOMAIN rows : Valid(rows[i])) => saved'.totals = totals]_vars

\* Opening a saved invoice again shows the totals it was saved with.
ReopenedIsSaved == [][~open /\ open' /\ fields'.contact => totals' = saved.totals]_vars

=============================================================================
