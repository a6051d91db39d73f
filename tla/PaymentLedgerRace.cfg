\* Concurrent fulfilment and refund of one order: the comment says one of them is terminal.
CONSTANTS
  o1 = o1
  p1 = p1
  p2 = p2
  t1 = t1
  t2 = t2
  None = None
  Orders = {o1}
  Payments = {p1}
  Threads = {t1, t2}
  OrderOf <- MCOrderOf
  Amount <- MCAmount
  IdCollisions = FALSE
SPECIFICATION Spec

INVARIANT EscrowNeverOverdrawn
