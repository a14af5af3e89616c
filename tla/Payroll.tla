------------------------------ MODULE Payroll ------------------------------
(***************************************************************************)
(* salaryPayment, the call that reads or writes every part of a PayBox     *)
(* dashboard (payboxDashboard.sol): it pays the salary of every entry of   *)
(* the list from the dashboard's tokens, withholds what the borrowers owe, *)
(* mints a certificate for the account with the most attendance credits    *)
(* and repays Aave what it withheld.  The dashboard is this call beside    *)
(* the registry, the attendance, the vault and the loans.                  *)
(*                                                                         *)
(* The dashboard is funded by plain transfers of the token.  Accounts take *)
(* a certificate without a reaction of their own.  Two history variables   *)
(* keep what the dashboard itself does not.                                *)
(***************************************************************************)
EXTENDS Attendance, GhoLoans

CONSTANTS
  Funds,        \* the amounts of the token that accounts send the dashboard
  MaxPayrolls   \* bound: the number of payrolls

ASSUME PayrollAssumption ==
  /\ Funds \subseteq Nat
  /\ MaxPayrolls \in Nat

VARIABLES
  certificates,  \* ownerOf: the account that has the certificate of each id
  lastPayOut,    \* uint256
  TotalPayOut,   \* uint256
  funded,        \* history: what was sent to the dashboard
  withheld       \* history: what was withheld from salaries

payVars == <<certificates, lastPayOut, TotalPayOut, funded, withheld>>

PayInit ==
  /\ certificates = <<>>
  /\ lastPayOut = 0
  /\ TotalPayOut = 0
  /\ funded = 0
  /\ withheld = 0

tokenId == Len(certificates)

-----------------------------------------------------------------------------
(***************************************************************************)
(* The loops of salaryPayment.                                             *)
(***************************************************************************)
\* Mutant: an account that is listed twice is counted once.
totalPaymentOnce == Total([a \in Range(allStaffs) |-> Salary[a]])

totalPayment == Total([i \in DOMAIN allStaffs |-> Salary[allStaffs[i]]])

\* Mutant: the last of those with the most credits wins.
BetterOrEqual(best, a) ==
  LET highest == IF best = NoStaff THEN 0 ELSE attendanceCounter[best]
  IN  IF attendanceCounter[a] >= highest THEN a ELSE best

\* The better of the best account so far and the next of the list: an account
\* must exceed the best, so the first of those with the most credits wins.
Better(best, a) ==
  LET highest == IF best = NoStaff THEN 0 ELSE attendanceCounter[best]
  IN  IF attendanceCounter[a] > highest THEN a ELSE best

\* The best account once the loop has seen the first n of the list.
bestEmployeeAfter[n \in 0 .. Len(allStaffs)] ==
  IF n = 0 THEN NoStaff ELSE Better(bestEmployeeAfter[n - 1], allStaffs[n])

checkHighestAttendance == bestEmployeeAfter[Len(allStaffs)]

Entries(a) == Cardinality({i \in DOMAIN allStaffs : allStaffs[i] = a})

\* Mutant: the flag is left set until the loop is over.
WithheldAtEach(a, unit) ==
  IF Listed(a) /\ borrowActive[a] THEN Entries(a) * ghoPayback(a, unit) ELSE 0

\* The loan is withheld at the first entry of an account, which clears it.
Withheld(a, unit) ==
  IF Listed(a) /\ borrowActive[a] THEN ghoPayback(a, unit) ELSE 0

payloan(unit) == Total([a \in Address |-> Withheld(a, unit)])

Received(a, unit) == Entries(a) * Salary[a] - Withheld(a, unit)

\* All that leaves the dashboard in the loop.
PaidOut(unit) == Total([a \in Address |-> Received(a, unit)])

\* Mutant: a loan that was withheld still stands.
LoansKept == staffLoan

LoansCleared ==
  [a \in Address |-> IF Listed(a) /\ borrowActive[a] THEN 0 ELSE staffLoan[a]]

\* Mutant: a certificate for address(0).
MintToAnyone(to) == certificates' = Append(certificates, to)

\* A certificate cannot be minted to address(0).
safeMint(to) ==
  /\ to # NoStaff
  /\ certificates' = Append(certificates, to)

-----------------------------------------------------------------------------
SalaryPayment(caller, unit) ==
  LET bestEmployee == checkHighestAttendance
  IN  /\ caller = Owner
      /\ tokenId < MaxPayrolls
      /\ \A a \in Range(allStaffs) :
           /\ Salary[a] > 0
           /\ borrowActive[a] => totalDebtETH(unit) # 0 /\ Salary[a] >= Withheld(a, unit)
      /\ wallet[PayToken][Dashboard] >= totalPayment
      /\ wallet' = [wallet EXCEPT ![PayToken] =
                      [h \in Holder |-> IF h = Dashboard
                                        THEN @[h] - PaidOut(unit)
                                        ELSE @[h] + Received(h, unit)]]
      /\ borrowActive' = [a \in Address |-> ~Listed(a) /\ borrowActive[a]]
      /\ staffLoan' = LoansCleared
      /\ safeMint(bestEmployee)
      /\ lastPayOut' = totalPayment
      /\ TotalPayOut' = TotalPayOut + totalPayment
      /\ IF payloan(unit) = 0
         THEN UNCHANGED <<aBalance, ghoDebt>>
         ELSE PayGhoOwe(payloan(unit))
      /\ withheld' = withheld + payloan(unit)
      /\ UNCHANGED <<registryVars, attendanceVars, gained, staffShares,
                     totalShares, funded>>

\* An account transfers tokens to the dashboard.
Fund(from, amount) ==
  /\ wallet[PayToken][from] >= amount
  /\ wallet' = [wallet EXCEPT ![PayToken][from] = @ - amount,
                              ![PayToken][Dashboard] = @ + amount]
  /\ funded' = funded + amount
  /\ UNCHANGED <<registryVars, attendanceVars, aBalance, gained, staffShares,
                 totalShares, loanVars, certificates, lastPayOut, TotalPayOut,
                 withheld>>

-----------------------------------------------------------------------------
(***************************************************************************)
(* The whole dashboard.                                                    *)
(***************************************************************************)
dashboardVars == <<registryVars, attendanceVars, vaultVars, loanVars, payVars>>

DashboardInit ==
  /\ RegistryInit
  /\ AttendanceInit
  /\ VaultInit
  /\ LoanInit
  /\ PayInit

DashboardNext ==
  \/ \E caller \in Address, unit \in BaseUnits : SalaryPayment(caller, unit)
  \/ \E from \in Address, amount \in Funds : Fund(from, amount)
  \/ CreditNext /\ UNCHANGED <<attendanceVars, payVars>>
  \/ AttendanceNext /\ UNCHANGED <<registryVars, vaultVars, loanVars, payVars>>

DashboardSpec == DashboardInit /\ [][DashboardNext]_dashboardVars

-----------------------------------------------------------------------------
(***************************************************************************)
(* Properties.                                                             *)
(***************************************************************************)
\* The types of every part of the dashboard: no checked subtraction goes below
\* zero, and no certificate goes to address(0).
DashboardTypeOK ==
  /\ RegistryTypeOK
  /\ AttendanceTypeOK
  /\ VaultTypeOK
  /\ LoanTypeOK
  /\ certificates \in Seq(Address)
  /\ lastPayOut \in Nat
  /\ TotalPayOut \in Nat
  /\ funded \in Nat
  /\ withheld \in Nat

\* The dashboard's tokens are what it was sent, less the payrolls, plus what
\* the payrolls withheld: repeated entries of the list are counted alike by
\* the test of the balance and by the loop that pays.
BooksBalance == wallet[PayToken][Dashboard] + TotalPayOut = funded + withheld

\* All that a payroll withholds reaches Aave, however many borrowers it has:
\* the debt is never less than the loans of those who are listed.
WithheldIsRepaid ==
  [][withheld' # withheld => withheld' - withheld = ghoDebt - ghoDebt']_dashboardVars

\* The part of the debt that no loan stands for: interest, and what rounding
\* has left unpaid of the loans that were cleared.
Uncovered == ghoDebt - Total(staffLoan)

\* totalDebtETH, less one, for every loan that a payroll clears.
MostLeft(unit) ==
  Total([a \in Address |->
           IF Listed(a) /\ borrowActive[a] THEN totalDebtETH(unit) - 1 ELSE 0])

\* No member of staff pays more than the loan, so that the company's part of
\* the debt never falls.  The rounding of ghoPayback lets it rise, in a payback
\* by less than the debt in the base currency at the price of that call, and in
\* a payroll by less than that for each loan that it clears.
CompanyBearsTheRest ==
  [][/\ Uncovered' >= Uncovered
     /\ \A unit \in BaseUnits :
          /\ (\E _staff \in Address : PaybackLoan(_staff, unit)) =>
               Uncovered' - Uncovered < totalDebtETH(unit)
          /\ (\E caller \in Address : SalaryPayment(caller, unit)) =>
               Uncovered' - Uncovered <= MostLeft(unit)]_dashboardVars

\* A payroll leaves no member of staff with a loan that a later payroll could
\* withhold again, however often the member is listed.
PayrollClearsLoans ==
  [][TotalPayOut' # TotalPayOut =>
       \A a \in Address : Listed(a)' => ~borrowActive'[a] /\ staffLoan'[a] = 0]_dashboardVars

\* The certificate goes to a listed account that no listed account exceeds,
\* and to the first of several.
AwardToTheBest ==
  [][certificates' # certificates =>
       \E i \in DOMAIN allStaffs :
         /\ Last(certificates') = allStaffs[i]
         /\ attendanceCounter[allStaffs[i]] > 0
         /\ \A j \in DOMAIN allStaffs :
              /\ attendanceCounter[allStaffs[j]] <= attendanceCounter[allStaffs[i]]
              /\ j < i => attendanceCounter[allStaffs[j]] < attendanceCounter[allStaffs[i]]
    ]_dashboardVars

=============================================================================
