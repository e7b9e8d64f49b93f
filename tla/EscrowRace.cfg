SPECIFICATION Spec
CONSTANTS
  o1 = o1
  o2 = o2
  n1 = n1
  n2 = n2
  Orders = {o1}
  Payments = {p1}
  NoPayment = NoPayment
  OrderOf <- MCOrderOf
  Quantity = 1
  Qty <- MCQty
  Notices = {n1, n2}
  Generic = {"FAILED"}
  MaxDisputes = 2
SYMMETRY MCNoticeSymmetry
INVARIANTS
  TypeOK
  NeverPaidTwice
  PayoutAfterReceipt
  DisputeFreezesPayout
CHECK_DEADLOCK FALSE
