\* payStaff is not the owner of any dashboard, and pays nobody.
CONSTANTS
  User = {u1, u2}
  Factory = factory
  NoAccount = none
  Daily = 1
  Biweekly = 2
  Monthly = 3
  MaxAccounts = 3
  MaxPays = 2
  LastTime = 3
SPECIFICATION TriggerSpec
PROPERTY TriggerPays
CHECK_DEADLOCK FALSE
