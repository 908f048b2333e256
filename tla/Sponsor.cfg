SPECIFICATION Spec
\* One user and three requests of one or two operations, two of which fill
\* either quota; two days of two time units and a window of two, so that a
\* window spans midnight and a request may be older than its window.
CONSTANTS
  Users = {u1}
  Requests = {r1, r2, r3}
  MaxOps = 2
  DailyOps = 3
  BurstOps = 2
  Window = 2
  Day = 2
  MaxTime = 3
  MaxRestarts = 1
SYMMETRY Symmetry
INVARIANTS QuotaAccounted BurstBounded
CHECK_DEADLOCK FALSE
