\* Two requests at a time, two completions over one key and unknown tokens.
CONSTANTS
  k1 = k1
  k2 = k2
  t1 = t1
  t2 = t2
  None = None
  Keys = {k1}
  Threads = {t1, t2}
  MaxCompletions = 2
  MaxRefunds = 1
SPECIFICATION FairSpec
INVARIANTS
  TypeOK
  ProcessedOnceAndSettled
PROPERTIES
  OutcomeReached
