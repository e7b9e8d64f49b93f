SPECIFICATION FairSpec
CONSTANTS
  o1 = o1
  o2 = o2
  n1 = n1
  n2 = n2
  Orders = {o1}
  Payments = {p1}
  NoPayment = NoPayment
  OrderOf <- MCOrderOf
  Quantity = 1
  Qty <- MCQty
  Notices = {n1}
  Generic = {}
  MaxDisputes = 1
PROPERTIES
  TakenMoneySettles
CHECK_DEADLOCK FALSE
