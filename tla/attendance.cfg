\* Openings and marks interleaved with any hirings and removals, repeated and
\* unknown accounts included.
CONSTANTS
  Address = {own, s1, s2}
  Owner = own
  Amount <- MCAmount
  NoStaff = none
  MaxStaff = 2
  MaxBatch = 2
  Interval = 2
  Deployment = 2
  Horizon = 4
SPECIFICATION OfficeSpec
INVARIANTS IndexSound OneCreditPerDay
PROPERTIES OncePerDay ImplementsDayBook
CHECK_DEADLOCK FALSE
