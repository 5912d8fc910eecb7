CONSTANTS
  Worlds = {"periods", "stock"}
  InvoiceIds = {i1, i2, i3, i4}
  ExpenseIds = {e1}
  ChequeIds = {c1}
  StocktakeIds = {s1}
  TransferIds = {t1}
  CashAccounts = {a1}
  Warehouses = {w1, w2}
  Products = {prod}
  Services = {serv}
  Periods = {p1, p2}
  Dates = {1, 2}
  PeriodOf <- TwoPeriods
  InvoiceForms <- StockForms
  CashAmounts = {1}
  Quantities = {0, 1, 2}
  UnitCosts = {3}
  QtyScale = 2
  MaxTreasury = 1
  None = None
  prod = prod
  serv = serv
  p1 = p1
  p2 = p2
SYMMETRY ShopSymmetry
SPECIFICATION WorldSpec
INVARIANTS
  ChequeEvidence
  GoodsAgree
PROPERTY ClosedPeriodFrozen
CHECK_DEADLOCK FALSE
