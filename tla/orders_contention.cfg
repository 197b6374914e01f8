CONSTANTS
  Users = {u1, u2}
  Products = {p1}
  OrderIds = {o1, o2}
  Keys = {k1, k2}
  Addresses = {a1}
  MaxCartLines = 1
  MaxQty = 1
  MaxStock = 1
  MaxEdits = 2
  NoOrder = NoOrder
SPECIFICATION FairSpec
INVARIANTS TypeOK StockConserved StatusDecidesRow CheckoutIsUnique NamedProductsExist
PROPERTIES NeverSoldAfterDeadline KeepsOrderPromise EveryOrderSettles
