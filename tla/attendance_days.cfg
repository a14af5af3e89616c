\* The count of the days each member of staff has attended, with any list of
\* staff that does not change.
CONSTANTS
  Address = {own, s1, s2}
  Owner = own
  Amount <- MCAmount
  NoStaff = none
  MaxStaff = 2
  MaxBatch = 2
  Interval = 2
  Deployment = 2
  Horizon = 4
SPECIFICATION HiredSpec
INVARIANT EveryDayCounts
CHECK_DEADLOCK FALSE
