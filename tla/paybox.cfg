\* Accounts and payrolls in every order.
CONSTANTS
  User = {u1, u2}
  Factory = factory
  NoAccount = none
  Daily = 1
  Biweekly = 2
  Monthly = 3
  MaxAccounts = 3
  MaxPays = 2
  LastTime = 3
SPECIFICATION PayboxSpec
INVARIANTS AccountsAreScheduled
PROPERTY PayStaffIsIdle
CHECK_DEADLOCK FALSE
