\* Three threads that make any call, two channels of which one takes a used id.
SPECIFICATION Spec
CONSTANTS
  Threads = {t1, t2, t3}
  Responders = {1, 2}
  FilterKinds <- MCFilterKinds
  Preferred = 2
  MaxBatch = 2
  MaxWants = 2
  MaxConnects = 2
  MaxFilters = 1
  MaxWrites = 2
SYMMETRY MCSymmetry
INVARIANTS NobodyStranded PromptRead
CHECK_DEADLOCK FALSE
