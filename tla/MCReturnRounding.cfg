CONSTANTS
  Worlds = {"rounding"}
  InvoiceIds = {i5, i6, i7, i8, i9}
  ExpenseIds = {}
  ChequeIds = {}
  StocktakeIds = {}
  TransferIds = {}
  CashAccounts = {a1}
  Warehouses = {w1}
  Products = {prod}
  Services = {}
  Periods = {p1}
  Dates = {1}
  PeriodOf <- OnePeriod
  InvoiceForms <- RoundingForms
  CashAmounts = {}
  Quantities = {}
  UnitCosts = {}
  QtyScale = 1
  MaxTreasury = 0
  None = None
  prod = prod
  serv = serv
  p1 = p1
  p2 = p2
SYMMETRY InvoiceSymmetry
SPECIFICATION WorldSpec
INVARIANT ReturnsWithinCost
CHECK_DEADLOCK FALSE
