\* One order, three attempts, two concurrent checkouts, one restart of
\* payments-api, and a service-1 that is told of failures too.
CONSTANTS
  o1 = o1
  o2 = o2
  c1 = c1
  c2 = c2
  c3 = c3
  None = None
  Orders = {o1}
  MaxAttempts = 3
  Threads = {c1, c2}
  MaxRestarts = 1
  Declines = TRUE
SPECIFICATION Spec
INVARIANTS
  TypeOK
  SupersededIsClosed
  OneTokenPerAttempt
PROPERTIES
  StatusOnlyAdvances
\* An order whose last allowed attempt has failed stops at the bound MaxAttempts.
CHECK_DEADLOCK FALSE
