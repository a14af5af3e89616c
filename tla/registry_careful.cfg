\* The owner adds unlisted accounts and removes listed ones.
CONSTANTS
  Address = {own, s1, s2, s3}
  Owner = own
  Amount <- MCAmount
  NoStaff = none
  MaxStaff = 4
  MaxBatch = 2
SPECIFICATION CarefulSpec
INVARIANTS IndexExact PayrollExact
PROPERTY ImplementsRoster
CHECK_DEADLOCK FALSE
