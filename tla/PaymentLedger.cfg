\* Two attempts of one order, two concurrent requests, no identifier collision.
CONSTANTS
  o1 = o1
  p1 = p1
  p2 = p2
  t1 = t1
  t2 = t2
  None = None
  Orders = {o1}
  Payments = {p1, p2}
  Threads = {t1, t2}
  OrderOf <- MCOrderOf
  Amount <- MCAmount
  IdCollisions = FALSE
SPECIFICATION Spec

INVARIANTS
  TypeOK
  PayoutExactlyOnce
  ReadinessAgrees
  BalancesExplained
  PaidMeansPayin
  RefundRowPerRefund
  AckedIsPosted
  OverdrawnOnlyByRace
PROPERTIES
  LedgerImplemented
