CONSTANTS
  Users = {u1}
  Products = {p1}
  OrderIds = {o1}
  Keys = {k1}
  Addresses = {a1}
  MaxCartLines = 1
  MaxQty = 2
  MaxStock = 3
  MaxEdits = 2
  NoOrder = NoOrder
SPECIFICATION Spec
PROPERTIES StaffEditMergesChange
