CONSTANTS
  Worlds = {"contract", "preview", "posting", "cash", "goods", "money", "discount"}
  Originals = {o1, o2}
  Amounts = {0, 1, 2, 3, 4}
  InvoiceIds = {i1, i2, i3}
  ExpenseIds = {e1}
  ChequeIds = {c1, c2}
  StocktakeIds = {}
  TransferIds = {}
  CashAccounts = {a1, a2}
  Warehouses = {w1}
  Products = {}
  Services = {serv}
  Periods = {p1}
  Dates = {1}
  PeriodOf <- OnePeriod
  InvoiceForms <- ShopForms
  CashAmounts = {1, 2}
  Quantities = {}
  UnitCosts = {}
  QtyScale = 1
  MaxTreasury = 4
  None = None
  i1 = i1
  i2 = i2
  i3 = i3
  a1 = a1
  a2 = a2
  w1 = w1
  w2 = w2
  e1 = e1
  c1 = c1
  c2 = c2
  s1 = s1
  t1 = t1
  p1 = p1
  prod = prod
  serv = serv
SYMMETRY InvoiceSymmetry
SPECIFICATION WorldSpec
INVARIANTS
  RefundsSound
  DiscountShared
  MoneyAgrees
  ReconciliationExact
PROPERTIES
  CreditStopsCollection
  PreviewFaithful
  SettlesReturns
CHECK_DEADLOCK FALSE
