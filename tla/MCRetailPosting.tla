-------------------------- MODULE MCRetailPosting --------------------------
(***************************************************************************)
(* The commands of the shop on small documents, in two worlds that do not  *)
(* interact: one of everything that is dated, in two periods that close;   *)
(* and goods bought, sold, given back, moved and counted.                  *)
(***************************************************************************)
EXTENDS RetailPosting, TLC

CONSTANTS Worlds, prod, serv, p1, p2

Item(item, units, total) == [item |-> item, units |-> units, total |-> total]
Invoice(kind, items, discount, vat, paid) ==
  [kind |-> kind, items |-> items, discount |-> discount, vat |-> vat, paid |-> paid]

\* Periods: a purchase, and two periods of a day each.
PeriodItems == {<<Item(prod, 3, 4)>>}
TwoPeriods == [d \in {1, 2} |-> IF d = 1 THEN p1 ELSE p2]

\* Stock: purchases at an uneven cost, one beside a service under a discount
\* and with tax; sales and returns in one line or in two.
StockForms ==
  {Invoice("purchase", <<Item(prod, 3, 4)>>, 0, 0, 0),
   Invoice("purchase", <<Item(serv, 1, 3), Item(prod, 1, 4)>>, 2, 1, 0),
   Invoice("sale", <<Item(prod, 3, 6)>>, 0, 0, 0),
   Invoice("sale", <<Item(prod, 1, 2), Item(prod, 1, 2)>>, 1, 1, 0),
   Invoice("sale_return", <<Item(prod, 1, 2)>>, 0, 0, 0),
   Invoice("sale_return", <<Item(prod, 1, 2), Item(prod, 1, 1)>>, 0, 1, 0),
   Invoice("purchase_return", <<Item(prod, 1, 1)>>, 0, 0, 0)}

\* Rounding: four units at a cost of 2, sold at once and returned one by one.
RoundingForms ==
  {Invoice("purchase", <<Item(prod, 4, 2)>>, 0, 0, 0),
   Invoice("sale", <<Item(prod, 4, 8)>>, 0, 0, 0),
   Invoice("sale_return", <<Item(prod, 1, 2)>>, 0, 0, 0)}

OnePeriod == [d \in {1} |-> p1]

-----------------------------------------------------------------------------
VARIABLE world

Issued == {i \in InvoiceIds : invoices[i].kind # "none"}

\* The movements between warehouses; the quantities moved or counted; and the
\* days of all that was written.
Transfers == UNION {Range(movements[t]) : t \in TransferIds}

Handled ==
  {m.units : m \in Transfers}
  \cup UNION {{stocktakes[s].lines[p].counted : p \in DOMAIN stocktakes[s].lines} :
                s \in StocktakeIds}

Days ==
  {j.date : j \in journals} \cup {m.date : m \in Transfers}
  \cup {stocktakes[s].date : s \in StocktakeIds}

\* Of the commands of the shop, those of one world: with three journals at most,
\* or on one day and with goods alone.
InPeriods ==
  /\ Cardinality(journals') <= 3
  /\ Cardinality(Issued') <= 1 /\ \A i \in Issued' : invoices'[i].items \in PeriodItems
  /\ Handled' \subseteq {1, Null}

InStock ==
  /\ UNCHANGED money /\ closed' \subseteq {p1}
  /\ Days' \subseteq {0, 1} /\ Handled' \subseteq {0, 2, Null}

WorldInit == world \in Worlds /\ Init

WorldNext ==
  /\ Next /\ UNCHANGED world
  /\ world = "periods" => InPeriods
  /\ world = "stock" => InStock

WorldSpec == WorldInit /\ [][WorldNext]_<<world, vars>>

ShopSymmetry == Permutations(InvoiceIds) \cup Permutations(Warehouses)
InvoiceSymmetry == Permutations(InvoiceIds)
=============================================================================
