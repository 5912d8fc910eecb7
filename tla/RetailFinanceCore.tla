------------------------- MODULE RetailFinanceCore -------------------------
(***************************************************************************)
(* The pure arithmetic of RetailFinanceCore.mjs: moving-average stock      *)
(* valuation and the largest-remainder split of an invoice discount.       *)
(* Amounts are whole rials and quantities whole units of 1/QTY_SCALE; the  *)
(* overflow guards at 2^53 are not modelled.                               *)
(***************************************************************************)
EXTENDS Integers, Sequences, FiniteSetsExt, Functions

\* Math.round(a / b) of non-negative integers rounds a half up.
RoundDiv(a, b) == (2 * a + b) \div (2 * b)

NoStock == [units |-> 0, value |-> 0]

ReceiveStock(stock, units, cost) ==
  [units |-> stock.units + units, value |-> stock.value + cost]

CanIssue(stock, units) == units <= stock.units

\* The units carry their share of the value, rounded half up; the last ones
\* carry all that is left.
IssueCost(stock, units) ==
  IF units = stock.units
  THEN stock.value
  ELSE (stock.value * units + stock.units \div 2) \div stock.units

IssueStock(stock, units) ==
  [units |-> stock.units - units, value |-> stock.value - IssueCost(stock, units)]

\* Mutant: the rials that are left go to the first lines that can bear one.
AllocateFromFirst(totals, discount) ==
  LET total == SumFunction(totals)
      reduced == [k \in DOMAIN totals |-> (totals[k] * discount) \div total]
      remaining == discount - SumFunction(reduced)
      extra(k) == IF reduced[k] < totals[k]
                     /\ Cardinality({m \in 1 .. k - 1 : reduced[m] < totals[m]}) < remaining
                  THEN 1 ELSE 0
  IN  IF total = 0
      THEN [k \in DOMAIN totals |-> 0]
      ELSE [k \in DOMAIN totals |-> totals[k] - reduced[k] - extra(k)]

\* Every line bears its share of the discount rounded down; the rials that are
\* left go to the largest remainders, the earlier line first.
AllocateDiscount(totals, discount) ==
  LET total == SumFunction(totals)
      reduced == [k \in DOMAIN totals |-> (totals[k] * discount) \div total]
      rem == [k \in DOMAIN totals |-> (totals[k] * discount) % total]
      remaining == discount - SumFunction(reduced)
      ahead(k) == {m \in DOMAIN totals :
                     /\ reduced[m] < totals[m]
                     /\ rem[m] > rem[k] \/ (rem[m] = rem[k] /\ m < k)}
      extra(k) == IF reduced[k] < totals[k] /\ Cardinality(ahead(k)) < remaining
                  THEN 1 ELSE 0
  IN  IF total = 0
      THEN [k \in DOMAIN totals |-> 0]
      ELSE [k \in DOMAIN totals |-> totals[k] - reduced[k] - extra(k)]
=============================================================================
