\* One asset: purchases, withdrawals and interest in every order.
CONSTANTS
  Address = {own, s1, s2}
  Owner = own
  Amount <- MCAmount
  NoStaff = none
  MaxStaff = 1
  MaxBatch = 1
  Dashboard = dash
  Asset = {dai}
  PayToken = dai
  ShareAsset = dai
  Wealth <- MCWealth
  Payments <- MCPayments
  Gains = {1}
  MaxGain = 2
  MaxUint = 100
SPECIFICATION SavingsSpec
INVARIANTS TotalIsSum SharesAreBacked HoldersCanLeave
PROPERTIES ClaimsNeverFall NoGainFromTrading
CHECK_DEADLOCK FALSE
