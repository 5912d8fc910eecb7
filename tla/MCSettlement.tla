---------------------------- MODULE MCSettlement ----------------------------
(***************************************************************************)
(* How invoices and accounts are settled, in seven worlds that do not      *)
(* interact: the contract of returns; previews of returns that grow old    *)
(* beside it; the commands of RetailPosting that                           *)
(* implement it; money received, paid, transferred and promised by cheque; *)
(* the split of a discount; and what reconciliation says of goods and of   *)
(* money.                                                                  *)
(***************************************************************************)
EXTENDS ReturnPreview, RetailPosting, TLC

CONSTANTS Worlds, i1, i2, i3, a1, a2, w1, w2, e1, c1, c2, s1, t1, p1, prod, serv

VARIABLES world,
          journals2, invoices2, treasury2, expenses2, cheques2, stock2, movements2, stocktakes2,
          closed2,  \* the stores reconciliation reads
          split     \* line totals and the discount to be split among them

-----------------------------------------------------------------------------
(* Posting: three units of a service, sold or bought for 3, with or        *)
(* without a down payment, and returns of one or two units, one at twice   *)
(* its price. Cash: one sale with tax and a down payment among receipts,   *)
(* payments, transfers, an expense and two cheques of 2.                   *)

Invoice(kind, units, total, down) ==
  [kind |-> kind, items |-> <<[item |-> serv, units |-> units, total |-> total]>>,
   discount |-> 0, vat |-> 0, paid |-> down]

SettlementForms ==
  {Invoice("sale", 3, 3, 0), Invoice("sale", 3, 3, 2), Invoice("purchase", 2, 3, 2),
   Invoice("sale_return", 1, 1, 0), Invoice("sale_return", 1, 2, 0),
   Invoice("sale_return", 2, 2, 0), Invoice("purchase_return", 1, 2, 0)}

CashForms ==
  {[kind |-> "sale", items |-> <<[item |-> serv, units |-> 1, total |-> 3]>>,
    discount |-> 1, vat |-> 1, paid |-> 2]}

ShopForms == SettlementForms \cup CashForms

CashItems == {form.items : form \in CashForms}

Issued == {i \in InvoiceIds : invoices[i].kind # "none"}

\* Of the commands of the shop, those of one world.
InPostingWorld ==
  /\ \A i \in InvoiceIds : invoices'[i].items \notin CashItems
  /\ UNCHANGED <<expenses, cheques, closed>>
  /\ \A k \in DOMAIN treasury' : a2 \notin {treasury'[k].from, treasury'[k].to}

InCashWorld ==
  /\ Cardinality(Issued') <= 1 /\ \A i \in Issued' : invoices'[i].items \in CashItems
  /\ Len(treasury') <= 2 /\ \A k \in DOMAIN treasury' : treasury'[k].amount = 2
  /\ \A c \in ChequeIds : cheques'[c].amount \in {0, 2}

\* Previews are of one invoice, with all that can happen to it.
OneInvoice == \E o \in Originals : \A q \in Originals \ {o} : gross'[q] = 0

OnePeriod == [d \in {1} |-> p1]

-----------------------------------------------------------------------------
(* What reconciliation says of goods and of money.                         *)

Doc(kind, units, total, down) ==
  [kind |-> kind, items |-> <<[item |-> prod, units |-> units, total |-> total]>>,
   discount |-> 0, vat |-> 0, paid |-> down]

\* Goods: bought, sold in full or in part, returned, counted.
TradedForms ==
  {Doc("purchase", 2, 3, 0), Doc("sale", 1, 2, 0), Doc("sale", 2, 2, 0),
   Doc("sale_return", 1, 1, 0)}

\* Money: down payments beside receipts, refunds and cheques.
PaidForms ==
  {Doc("purchase", 2, 2, 1), Doc("sale", 1, 2, 2), Doc("sale_return", 1, 1, 0)}

\* The commands that trade the goods, and the reconciliation of what they wrote.
Trade == INSTANCE RetailPosting
  WITH journals <- journals2, invoices <- invoices2, treasury <- treasury2,
       expenses <- expenses2, cheques <- cheques2, stock <- stock2, movements <- movements2,
       stocktakes <- stocktakes2, closed <- closed2,
       InvoiceIds <- {i1, i2, i3}, ExpenseIds <- {}, ChequeIds <- {}, StocktakeIds <- {s1},
       TransferIds <- {t1}, CashAccounts <- {a1}, Warehouses <- {w1, w2}, Products <- {prod},
       Services <- {}, Periods <- {p1}, Dates <- {1}, PeriodOf <- OnePeriod,
       InvoiceForms <- TradedForms, CashAmounts <- {}, Quantities <- {0, 1}, UnitCosts <- {3},
       QtyScale <- 2, MaxTreasury <- 0

Goods == INSTANCE Reconciliation
  WITH journals <- journals2, invoices <- invoices2, treasury <- treasury2,
       expenses <- expenses2, cheques <- cheques2, stock <- stock2, movements <- movements2,
       stocktakes <- stocktakes2, closed <- closed2,
       InvoiceIds <- {i1, i2, i3}, ExpenseIds <- {}, ChequeIds <- {}, StocktakeIds <- {s1},
       TransferIds <- {t1}, CashAccounts <- {a1}, Warehouses <- {w1, w2}, Products <- {prod},
       Services <- {}, Periods <- {p1}, Dates <- {1}, PeriodOf <- OnePeriod,
       InvoiceForms <- TradedForms, CashAmounts <- {}, Quantities <- {0, 1}, UnitCosts <- {3},
       QtyScale <- 2, MaxTreasury <- 0

Money == INSTANCE Reconciliation
  WITH journals <- journals2, invoices <- invoices2, treasury <- treasury2,
       expenses <- expenses2, cheques <- cheques2, stock <- stock2, movements <- movements2,
       stocktakes <- stocktakes2, closed <- closed2,
       InvoiceIds <- {i1, i2, i3}, ExpenseIds <- {e1}, ChequeIds <- {c1}, StocktakeIds <- {},
       TransferIds <- {}, CashAccounts <- {a1}, Warehouses <- {w1}, Products <- {prod},
       Services <- {}, Periods <- {p1}, Dates <- {1}, PeriodOf <- OnePeriod,
       InvoiceForms <- PaidForms, CashAmounts <- {1}, Quantities <- {0}, UnitCosts <- {},
       QtyScale <- 2, MaxTreasury <- 3

InvoiceSymmetry == Permutations({i1, i2, i3}) \cup Permutations({w1, w2})

-----------------------------------------------------------------------------
(* Every invoice of up to four lines of 0..4 rials, and every discount.    *)

MaxLines == 4
MaxTotal == 4

Splits ==
  UNION {{[totals |-> t, discount |-> d] : d \in 0 .. SumFunction(t)} :
           t \in UNION {[1 .. n -> 0 .. MaxTotal] : n \in 1 .. MaxLines}}

(* allocateDiscount hands out the whole discount and no more, gives no     *)
(* line more than its total, keeps every line within a rial of its exact   *)
(* share and lets the larger remainder, or else the earlier line, go first.*)
DiscountShared ==
  LET line == split.totals
      discount == split.discount
      total == SumFunction(line)
      net == AllocateDiscount(line, discount)
      \* How far line k's share of the discount lies above the exact one,
      \* times total.
      above(k) == (line[k] - net[k]) * total - line[k] * discount
  IN  total > 0 =>
        /\ SumFunction(net) = total - discount
        /\ \A k \in DOMAIN net :
             0 <= net[k] /\ net[k] <= line[k] /\ -total < above(k) /\ above(k) < total
        /\ \A k, m \in DOMAIN net :
             above(k) > 0 /\ above(m) < 0 =>
               \* The remainder of k is total - above(k), that of m is -above(m).
               \/ total - above(k) > -above(m)
               \/ total - above(k) = -above(m) /\ k < m

-----------------------------------------------------------------------------
vars2 == <<journals2, invoices2, treasury2, expenses2, cheques2, stock2, movements2,
           stocktakes2, closed2>>

WorldInit ==
  /\ world \in Worlds
  /\ PreviewInit
  /\ Init
  /\ IF world = "money" THEN Money!Init ELSE Trade!Init
  /\ split \in IF world = "discount" THEN Splits ELSE {[totals |-> <<>>, discount |-> 0]}

WorldNext ==
  /\ UNCHANGED <<world, split>>
  /\ \/ world = "contract" /\ SettlementNext /\ UNCHANGED <<shown, vars, vars2>>
     \/ world = "preview" /\ PreviewNext /\ OneInvoice /\ UNCHANGED <<vars, vars2>>
     \/ world = "posting" /\ Next /\ InPostingWorld /\ UNCHANGED <<previewVars, vars2>>
     \/ world = "cash" /\ Next /\ InCashWorld /\ UNCHANGED <<previewVars, vars2>>
     \/ world = "goods" /\ Trade!Next /\ UNCHANGED <<previewVars, vars>>
     \/ world = "money" /\ Money!Next /\ UNCHANGED <<previewVars, vars>>

WorldSpec == WorldInit /\ [][WorldNext]_<<world, previewVars, vars, vars2, split>>

-----------------------------------------------------------------------------
(* Reconciliation reports nothing of sound books, whatever was posted; its *)
(* report is not empty once a row is lost that another row names, or the   *)
(* amount of one is altered that another repeats; and it finds what the    *)
(* quick check finds.                                                      *)
ReconciliationExact ==
  /\ world = "goods" =>
       Goods!NothingToReport /\ Goods!LossReported /\ Goods!AlterationReported
  /\ world = "money" =>
       /\ Money!NothingToReport /\ Money!LossReported /\ Money!AlterationReported
       /\ Money!ReportCoversQuickCheck
=============================================================================
