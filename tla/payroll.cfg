\* Payrolls of any list, with loans, interest, attendance and funding between them.
CONSTANTS
  Address = {own, s1}
  Owner = own
  Amount <- MCAmount
  NoStaff = none
  MaxStaff = 2
  MaxBatch = 2
  Interval = 1
  Deployment = 1
  Horizon = 1
  Dashboard = dash
  Asset = {dai, gho}
  PayToken = dai
  ShareAsset = dai
  Wealth <- MCWealth
  Payments = {100}
  Gains = {40}
  MaxGain = 40
  MaxUint = 100000
  Gho = gho
  Loans = {15}
  Interests = {5}
  BaseUnits = {8, 10}
  MaxDebt = 35
  Funds = {60}
  MaxPayrolls = 2
SPECIFICATION PaydaySpec
INVARIANTS DashboardTypeOK ActiveIsOwing LoansAreOwedToAave BooksBalance
PROPERTIES CompanyBearsTheRest WithheldIsRepaid PayrollClearsLoans AwardToTheBest
CHECK_DEADLOCK FALSE
