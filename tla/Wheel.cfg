\* Buckets of two: level l covers 2^l ticks, the wheel 32.  The delays reach
\* every level; odd ones are rounded.  Nothing happens after the wheel is gone.
SPECIFICATION FairSpec
CONSTANTS
  Nodes = {n1}
  Workers = {w1, w2}
  TVR = 2
  TVN = 2
  Wrap = 64
  TickMs = 2
  Delays = {0, 1, 4, 10, 19, 34}
  Periods = {1, 6}
  MaxLag = 2
INVARIANTS
  TypeOK
  DelSticks
  PeriodicAlive
PROPERTIES
  OnTime
  AskedTicks
  CallbackRuns
  DestroyReturns
CHECK_DEADLOCK FALSE
