\* Two concurrent checkouts of one order; payments-api never restarts.
CONSTANTS
  o1 = o1
  o2 = o2
  c1 = c1
  c2 = c2
  c3 = c3
  None = None
  Orders = {o1}
  MaxAttempts = 2
  Threads = {c1, c2}
  MaxRestarts = 0
  Declines = FALSE
SPECIFICATION Spec
SYMMETRY Symmetry
INVARIANTS
  OnePaymentPerOrder
\* An order whose last allowed attempt has failed stops at the bound MaxAttempts.
CHECK_DEADLOCK FALSE
