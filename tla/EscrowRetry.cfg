SPECIFICATION Spec
CONSTANTS
  o1 = o1
  o2 = o2
  n1 = n1
  n2 = n2
  Orders = {o1}
  Payments = {p1, p2}
  NoPayment = NoPayment
  OrderOf <- MCOrderOf
  Quantity = 1
  Qty <- MCQty
  Notices = {n1}
  Generic = {}
  MaxDisputes = 2
INVARIANTS
  SoldOrderHasPayout
PROPERTIES
  CustodySpec
CHECK_DEADLOCK FALSE
