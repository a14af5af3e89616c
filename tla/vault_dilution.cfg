\* A purchase in a second asset does not keep the price.
CONSTANTS
  Address = {own, s1, s2}
  Owner = own
  Amount <- MCAmount
  NoStaff = none
  MaxStaff = 1
  MaxBatch = 1
  Dashboard = dash
  Asset = {dai, usdt}
  PayToken = dai
  ShareAsset = dai
  Wealth <- MCWealth
  Payments <- MCPayments
  Gains = {1}
  MaxGain = 2
  MaxUint = 100
SPECIFICATION SavingsSpec
PROPERTY PurchaseKeepsPrice
CHECK_DEADLOCK FALSE
