--------------------------- MODULE PayrollProofs ---------------------------
(***************************************************************************)
(* Theorems about Payroll, the whole dashboard, for any accounts, assets,  *)
(* salaries, prices and bounds.                                            *)
(***************************************************************************)
EXTENDS Payroll, StaffProofs, CreditProofs

USE RegistryAssumption, AttendanceAssumption, VaultAssumption, LoanAssumption,
    PayrollAssumption

-----------------------------------------------------------------------------
(***************************************************************************)
(* The staff of the dashboard.  Every step of the dashboard is a step of   *)
(* the registry and the attendance, or leaves them as they are, so that    *)
(* what is proved of them holds of the dashboard.                          *)
(***************************************************************************)
LEMMA DashboardStepIsOfficeStep == [DashboardNext]_dashboardVars => [OfficeNext]_officeVars
<1> SUFFICES ASSUME [DashboardNext]_dashboardVars
             PROVE  [OfficeNext]_officeVars
  OBVIOUS
<1>1. CASE \E caller \in Address, unit \in BaseUnits : SalaryPayment(caller, unit)
  BY <1>1, Zenon DEF SalaryPayment, officeVars
<1>2. CASE \E from \in Address, amount \in Funds : Fund(from, amount)
  BY <1>2, Zenon DEF Fund, officeVars
<1>3. CASE CreditNext /\ UNCHANGED <<attendanceVars, payVars>>
  BY <1>3 DEF CreditNext, SavingsNext, OfficeNext, officeVars
<1>4. CASE AttendanceNext /\ UNCHANGED <<registryVars, vaultVars, loanVars, payVars>>
  BY <1>4 DEF OfficeNext
<1>5. CASE UNCHANGED dashboardVars
  BY <1>5 DEF dashboardVars, officeVars
<1> QED BY <1>1, <1>2, <1>3, <1>4, <1>5 DEF DashboardNext

\* Beside the vault, the loans and the payroll, the staff behave as they do
\* alone: all that is proved of OfficeSpec holds of the dashboard.
THEOREM DashboardHasOffice == DashboardSpec => OfficeSpec
<1>1. DashboardInit => OfficeInit
  BY DEF DashboardInit, OfficeInit
<1> QED BY <1>1, DashboardStepIsOfficeStep, PTL DEF DashboardSpec, OfficeSpec

\* Beside payrolls, savings and loans as well, the credits sum to the days with a
\* mark, are earned, nobody marks twice a day, and the first to mark is credited.
THEOREM DashboardCreditsDays ==
  DashboardSpec => []OneCreditPerDay /\ []CreditsAreEarned /\ OncePerDay /\ ImplementsDayBook
BY DashboardHasOffice, CreditsAddUp, CreditsEarned, MarksOnce, OfficeImplementsDayBook, PTL

\* The indices of the registry are sound beside them too.
THEOREM DashboardIndicesSound == DashboardSpec => []IndexSound
BY DashboardHasOffice, OfficeIndicesSound, PTL

-----------------------------------------------------------------------------
(***************************************************************************)
(* The award.  bestEmployeeAfter is a recursive function: that there is    *)
(* one is shown for lists of each length in turn, by the least length for  *)
(* which there would be none.                                              *)
(***************************************************************************)
BestUpTo(n, f) ==
  f = [i \in 0 .. n |-> IF i = 0 THEN NoStaff ELSE Better(f[i - 1], allStaffs[i])]

LEMMA BestExists == \A n \in Nat : \E f : BestUpTo(n, f)
<1> DEFINE Without == {n \in Nat : ~ \E f : BestUpTo(n, f)}
<1> SUFFICES ASSUME Without # {}
             PROVE  FALSE
  OBVIOUS
<1>1. PICK n \in Without : \A m \in Without : n <= m
  <2>1. Without \in SUBSET Nat
    OBVIOUS
  <2> HIDE DEF Without
  <2> QED BY <2>1, LeastNatural
<1>2. CASE n = 0
  <2> DEFINE f == [i \in 0 .. 0 |-> NoStaff]
  <2>1. BestUpTo(0, f)
    BY DEF BestUpTo
  <2> HIDE DEF f
  <2> QED BY <1>2, <2>1
<1>3. CASE n # 0
  <2>1. n - 1 \in Nat /\ n - 1 \notin Without
    BY <1>1, <1>3
  <2>2. PICK f : BestUpTo(n - 1, f)
    BY <2>1
  <2> DEFINE g == [i \in 0 .. n |-> IF i = n THEN Better(f[n - 1], allStaffs[n]) ELSE f[i]]
  <2>3. \A i \in 0 .. n - 1 : /\ g[i] = f[i]
                              /\ f[i] = IF i = 0 THEN NoStaff
                                       ELSE Better(f[i - 1], allStaffs[i])
    BY <2>2, <1>1 DEF BestUpTo
  <2>4. g[n] = Better(f[n - 1], allStaffs[n])
    BY <1>1
  <2>5. DOMAIN g = 0 .. n /\ g = [i \in 0 .. n |-> g[i]]
    OBVIOUS
  <2> HIDE DEF g
  <2>6. ASSUME NEW i \in 0 .. n
        PROVE  g[i] = IF i = 0 THEN NoStaff ELSE Better(g[i - 1], allStaffs[i])
    <3>1. CASE i = n
      <4>1. g[n - 1] = f[n - 1]
        BY <1>3, <2>1, <2>3
      <4> QED BY <1>3, <2>4, <3>1, <4>1
    <3>2. CASE i = 0
      BY <1>3, <2>1, <2>3, <3>2
    <3>3. CASE i # n /\ i # 0
      <4>1. i \in 0 .. n - 1 /\ i - 1 \in 0 .. n - 1
        BY <1>1, <3>3
      <4>2. g[i] = Better(f[i - 1], allStaffs[i]) /\ g[i - 1] = f[i - 1]
        BY <2>3, <3>3, <4>1
      <4> QED BY <3>3, <4>2
    <3> QED BY <3>1, <3>2, <3>3
  <2>7. BestUpTo(n, g)
    BY <2>5, <2>6 DEF BestUpTo
  <2> QED BY <1>1, <2>7
<1> QED BY <1>2, <1>3

LEMMA BestEmployeeAfter ==
  ASSUME allStaffs \in Seq(Address)
  PROVE  \A i \in 0 .. Len(allStaffs) :
           bestEmployeeAfter[i]
             = IF i = 0 THEN NoStaff ELSE Better(bestEmployeeAfter[i - 1], allStaffs[i])
<1> DEFINE n == Len(allStaffs)
<1>1. bestEmployeeAfter = CHOOSE f : BestUpTo(n, f)
  BY Zenon DEF bestEmployeeAfter, BestUpTo
<1>2. n \in Nat
  OBVIOUS
<1>3. BestUpTo(n, bestEmployeeAfter)
  <2> HIDE DEF n
  <2> QED BY <1>1, <1>2, BestExists
<1>4. \A i \in 0 .. n : bestEmployeeAfter[i]
             = IF i = 0 THEN NoStaff ELSE Better(bestEmployeeAfter[i - 1], allStaffs[i])
  <2> HIDE DEF n
  <2> QED BY <1>3 DEF BestUpTo
<1> QED BY <1>4

\* The account b is the first, among the first n of the list, of those with the
\* most credits, or there is none with a credit.
Credits(i) == attendanceCounter[allStaffs[i]]

FirstOfTheBest(n, i) ==
  /\ Credits(i) > 0
  /\ \A j \in 1 .. n : Credits(j) <= Credits(i) /\ (j < i => Credits(j) < Credits(i))

BestAmong(n, b) ==
  \/ b = NoStaff /\ \A j \in 1 .. n : Credits(j) = 0
  \/ \E i \in 1 .. n : b = allStaffs[i] /\ FirstOfTheBest(n, i)

LEMMA BetterKeeps ==
  ASSUME allStaffs \in Seq(Address), attendanceCounter \in [Address -> Nat],
         NEW n \in 1 .. Len(allStaffs), NEW b, BestAmong(n - 1, b)
  PROVE  BestAmong(n, Better(b, allStaffs[n]))
<1> USE DEF Credits
<1>1. \A i \in 1 .. Len(allStaffs) : allStaffs[i] \in Address /\ Credits(i) \in Nat
  OBVIOUS
<1>2. n \in Nat \ {0} /\ n \in 1 .. n /\ 1 .. n - 1 \subseteq 1 .. n
      /\ 1 .. n \subseteq 1 .. Len(allStaffs)
      /\ \A j \in 1 .. n : j = n \/ j \in 1 .. n - 1
  OBVIOUS
<1>3. CASE b = NoStaff /\ \A j \in 1 .. n - 1 : Credits(j) = 0
  <2>1. CASE Credits(n) > 0
    <3>1. Better(b, allStaffs[n]) = allStaffs[n]
      BY <1>3, <2>1 DEF Better
    <3>2. FirstOfTheBest(n, n)
      <4> SUFFICES ASSUME NEW j \in 1 .. n
                   PROVE  Credits(j) <= Credits(n) /\ (j < n => Credits(j) < Credits(n))
        BY <2>1 DEF FirstOfTheBest
      <4>1. CASE j = n
        BY <1>1, <1>2, <4>1
      <4>2. CASE j # n
        BY <1>1, <1>2, <1>3, <2>1, <4>2
      <4> QED BY <4>1, <4>2
    <3> QED BY <1>2, <3>1, <3>2 DEF BestAmong
  <2>2. CASE ~ (Credits(n) > 0)
    <3>1. Better(b, allStaffs[n]) = NoStaff
      BY <1>3, <2>2 DEF Better
    <3>2. Credits(n) = 0
      BY <1>1, <1>2, <2>2
    <3> QED BY <1>2, <1>3, <3>1, <3>2 DEF BestAmong
  <2> QED BY <2>1, <2>2
<1>4. ASSUME NEW i \in 1 .. n - 1, b = allStaffs[i], FirstOfTheBest(n - 1, i)
      PROVE  BestAmong(n, Better(b, allStaffs[n]))
  <2>1. b # NoStaff /\ Credits(i) = attendanceCounter[b]
    BY <1>1, <1>2, <1>4
  <2>2. CASE Credits(n) > Credits(i)
    <3>1. Better(b, allStaffs[n]) = allStaffs[n]
      BY <2>1, <2>2 DEF Better
    <3>2. FirstOfTheBest(n, n)
      <4>1. Credits(n) > 0
        BY <1>1, <1>2, <2>2
      <4> SUFFICES ASSUME NEW j \in 1 .. n
                   PROVE  Credits(j) <= Credits(n) /\ (j < n => Credits(j) < Credits(n))
        BY <4>1 DEF FirstOfTheBest
      <4>2. CASE j = n
        BY <1>1, <1>2, <4>2
      <4>3. CASE j # n
        <5>1. Credits(j) <= Credits(i)
          BY <1>2, <1>4, <4>3 DEF FirstOfTheBest
        <5>2. Credits(j) \in Nat /\ Credits(i) \in Nat /\ Credits(n) \in Nat
          BY <1>1, <1>2
        <5> HIDE DEF Credits
        <5> QED BY <2>2, <5>1, <5>2
      <4> QED BY <4>2, <4>3
    <3> QED BY <1>2, <3>1, <3>2 DEF BestAmong
  <2>3. CASE ~ (Credits(n) > Credits(i))
    <3>1. Better(b, allStaffs[n]) = b
      BY <2>1, <2>3 DEF Better
    <3>2. Credits(n) <= Credits(i) /\ ~ (n < i) /\ i \in 1 .. n
      BY <1>1, <1>2, <2>3
    <3> HIDE DEF Credits
    <3>3. FirstOfTheBest(n, i)
      BY <1>2, <1>4, <3>2 DEF FirstOfTheBest
    <3> QED BY <1>4, <3>1, <3>2, <3>3 DEF BestAmong
  <2> QED BY <2>2, <2>3
<1> QED BY <1>3, <1>4 DEF BestAmong

LEMMA BestOfTheList ==
  ASSUME allStaffs \in Seq(Address), attendanceCounter \in [Address -> Nat]
  PROVE  BestAmong(Len(allStaffs), checkHighestAttendance)
<1> DEFINE Wrong == {n \in 0 .. Len(allStaffs) : ~ BestAmong(n, bestEmployeeAfter[n])}
<1>1. Wrong = {}
  <2> SUFFICES ASSUME Wrong # {}
               PROVE  FALSE
    OBVIOUS
  <2>1. PICK n \in Wrong : \A m \in Wrong : n <= m
    <3>1. Wrong \in SUBSET Nat
      OBVIOUS
    <3> HIDE DEF Wrong
    <3> QED BY <3>1, LeastNatural
  <2>2. n \in 0 .. Len(allStaffs) /\ ~ BestAmong(n, bestEmployeeAfter[n])
    BY <2>1
  <2>3. CASE n = 0
    <3>1. bestEmployeeAfter[0] = NoStaff
      BY <2>2, <2>3, BestEmployeeAfter
    <3> QED BY <2>2, <2>3, <3>1 DEF BestAmong
  <2>4. CASE n # 0
    <3>1. n \in 1 .. Len(allStaffs) /\ n - 1 \in 0 .. Len(allStaffs)
      BY <2>2, <2>4
    <3>2. ~ (n <= n - 1)
      BY <3>1
    <3>3. n - 1 \notin Wrong
      <4> HIDE DEF Wrong
      <4> QED BY <2>1, <3>2
    <3>4. BestAmong(n - 1, bestEmployeeAfter[n - 1])
      BY <3>1, <3>3
    <3>5. bestEmployeeAfter[n] = Better(bestEmployeeAfter[n - 1], allStaffs[n])
      BY <2>4, <2>2, BestEmployeeAfter
    <3> QED BY <2>2, <3>1, <3>4, <3>5, BetterKeeps
  <2> QED BY <2>3, <2>4
<1>2. Len(allStaffs) \in 0 .. Len(allStaffs)
  OBVIOUS
<1> QED BY <1>1, <1>2 DEF checkHighestAttendance

-----------------------------------------------------------------------------
(***************************************************************************)
(* The sums of salaryPayment.  totalPayment counts the list entry by       *)
(* entry, the payments account by account.                                 *)
(***************************************************************************)
LEMMA SalariesAreNaturals ==
  ASSUME RegistryTypeOK
  PROVE  Salary \in [Address -> Nat]
<1>1. Salary \in [Address -> Amount \cup {0}]
  BY DEF RegistryTypeOK
<1>2. Amount \cup {0} \subseteq Nat
  OBVIOUS
<1> QED BY <1>1, <1>2

LEMMA TotalPaymentByAccount ==
  ASSUME RegistryTypeOK
  PROVE  /\ totalPayment = Total([a \in Address |-> Entries(a) * Salary[a]])
         /\ \A a \in Address : Entries(a) * Salary[a] \in Nat
         /\ [a \in Address |-> Entries(a) * Salary[a]] \in [Address -> Nat]
         /\ \A a \in Address : Listed(a) => Entries(a) \in Nat /\ Entries(a) >= 1
<1>1. allStaffs \in Seq(Address) /\ Salary \in [Address -> Nat]
  BY SalariesAreNaturals DEF RegistryTypeOK
<1>2. IsFiniteSet(DOMAIN allStaffs)
  BY <1>1, FS_Interval
<1>3. ASSUME NEW a \in Address
      PROVE  /\ IsFiniteSet({i \in DOMAIN allStaffs : allStaffs[i] = a})
             /\ Cardinality({i \in DOMAIN allStaffs : allStaffs[i] = a}) \in Nat
  BY <1>2, FS_Subset, FS_CardinalityType
<1>4. \A a \in Address : Entries(a) \in Nat
  BY <1>3 DEF Entries
<1>5. ASSUME NEW a \in Address, Listed(a)
      PROVE  Entries(a) # 0
  <2>1. {i \in DOMAIN allStaffs : allStaffs[i] = a} # {}
    BY <1>5 DEF Listed, Range
  <2> QED BY <1>3, <2>1, FS_EmptySet DEF Entries
<1>6. \A n, v \in Nat : n * v \in Nat /\ (n # 0 => n >= 1)
  OBVIOUS
<1>7. \A a \in Address : Entries(a) * Salary[a] \in Nat
  BY <1>1, <1>4, <1>6
<1>8. totalPayment = Total([a \in Address |-> Entries(a) * Salary[a]])
  <2> DEFINE D == DOMAIN allStaffs
  <2>1. IsFiniteSet(D) /\ allStaffs \in [D -> Address]
    BY <1>1, <1>2
  <2>2. Salary \in [Address -> Nat]
    BY <1>1
  <2> HIDE DEF D
  <2>3. Total([i \in D |-> Salary[allStaffs[i]]])
          = Total([a \in Address |-> EntriesOf(allStaffs, a) * Salary[a]])
    BY <2>1, <2>2, TotalByAccount
  <2> QED BY <2>3, Zenon DEF totalPayment, Entries, EntriesOf, D
<1>9. ASSUME NEW a \in Address, Listed(a)
      PROVE  Entries(a) >= 1
  BY <1>4, <1>5, <1>6, <1>9
<1> QED BY <1>4, <1>7, <1>8, <1>9

\* What a payroll withholds from an account is at most its loan, and at most
\* its salary; what all the accounts receive and what is withheld add up to
\* the salaries of the list.
LEMMA SalariesAddUp ==
  ASSUME RegistryTypeOK, LoanInv, NEW caller \in Address, NEW unit \in BaseUnits,
         SalaryPayment(caller, unit)
  PROVE  /\ [a \in Address |-> Withheld(a, unit)] \in [Address -> Nat]
         /\ \A a \in Address : Withheld(a, unit) <= staffLoan[a]
         /\ \A a \in Address : Received(a, unit) \in Nat
         /\ payloan(unit) \in Nat
         /\ PaidOut(unit) \in Nat
         /\ totalPayment = PaidOut(unit) + payloan(unit)
<1> DEFINE due == [a \in Address |-> Entries(a) * Salary[a]]
           kept == [a \in Address |-> Withheld(a, unit)]
           got == [a \in Address |-> Received(a, unit)]
<1>1. /\ staffLoan \in [Address -> Nat] /\ ghoDebt \in Nat /\ unit \in Nat \ {0}
      /\ Salary \in [Address -> Nat]
  BY SalariesAreNaturals DEF LoanInv, LoanTypeOK
<1>2. due \in [Address -> Nat] /\ totalPayment = Total(due)
  BY TotalPaymentByAccount
<1>3. ASSUME NEW a \in Address
      PROVE  /\ Withheld(a, unit) \in Nat
             /\ Withheld(a, unit) <= staffLoan[a]
             /\ Withheld(a, unit) <= Entries(a) * Salary[a]
  <2>1. CASE Listed(a) /\ borrowActive[a]
    <3>1. totalDebtETH(unit) # 0 /\ Salary[a] >= Withheld(a, unit)
      BY <2>1 DEF SalaryPayment, Listed
    <3>2. totalDebtETH(unit) \in Nat \ {0}
      <4>1. ghoDebt \div unit \in Nat
        BY <1>1
      <4> QED BY <3>1, <4>1 DEF totalDebtETH
    <3>3. Withheld(a, unit) \in Nat /\ Withheld(a, unit) <= staffLoan[a]
      BY <1>1, <2>1, <3>2, RoundedDown DEF Withheld, ghoPayback
    <3>4. Entries(a) \in Nat /\ Entries(a) >= 1 /\ Salary[a] \in Nat
      BY <1>1, <2>1, TotalPaymentByAccount
    <3>5. Entries(a) * Salary[a] >= Salary[a]
      <4>1. \A n, v \in Nat : n >= 1 => n * v >= v
        OBVIOUS
      <4> QED BY <3>4, <4>1
    <3>6. Entries(a) * Salary[a] \in Nat
      BY <3>4
    <3> QED BY <3>1, <3>3, <3>4, <3>5, <3>6
  <2>2. CASE ~ (Listed(a) /\ borrowActive[a])
    <3>1. Withheld(a, unit) = 0
      BY <2>2 DEF Withheld
    <3>2. due[a] \in Nat /\ due[a] = Entries(a) * Salary[a] /\ staffLoan[a] \in Nat
      BY <1>1, <1>2
    <3> QED BY <3>1, <3>2
  <2> QED BY <2>1, <2>2
<1>4. kept \in [Address -> Nat]
  BY <1>3
<1>5. ASSUME NEW a \in Address
      PROVE  Received(a, unit) \in Nat /\ due[a] = got[a] + kept[a]
  <2>1. due[a] \in Nat /\ due[a] = Entries(a) * Salary[a]
    BY <1>2
  <2>2. Received(a, unit) = due[a] - Withheld(a, unit)
    BY <2>1 DEF Received
  <2> QED BY <1>3, <2>1, <2>2
<1>6. got \in [Address -> Nat]
  BY <1>5
<1>7. Total(kept) = payloan(unit) /\ Total(got) = PaidOut(unit)
  BY DEF payloan, PaidOut
<1> HIDE DEF due, kept, got
<1>8. Total(due) = Total(got) + Total(kept)
  BY <1>2, <1>4, <1>5, <1>6, TotalSum
<1>9. Total(got) \in Nat /\ Total(kept) \in Nat
  BY <1>4, <1>6, UnitsFinite
<1> QED BY <1>2, <1>3, <1>4, <1>5, <1>7, <1>8, <1>9 DEF kept

\* A payroll repays Aave all it withholds, as that is at most the loans that
\* it clears and so at most the debt.
LEMMA PayrollRepays ==
  ASSUME RegistryTypeOK, VaultTypeOK, LoanInv, NEW caller \in Address,
         NEW unit \in BaseUnits, SalaryPayment(caller, unit)
  PROVE  /\ payloan(unit) \in Nat
         /\ payloan(unit) <= ghoDebt
         /\ ghoDebt' = ghoDebt - payloan(unit)
         /\ aBalance' \in [Asset -> Nat]
         /\ \A a \in Address : Withheld(a, unit) \in Nat /\ Withheld(a, unit) <= payloan(unit)
<1> DEFINE kept == [a \in Address |-> Withheld(a, unit)]
<1>1. /\ staffLoan \in [Address -> Nat] /\ ghoDebt \in Nat /\ aBalance \in [Asset -> Nat]
      /\ Total(staffLoan) <= ghoDebt
  BY DEF LoanInv, LoanTypeOK, LoansAreOwedToAave, VaultTypeOK
<1>2. /\ kept \in [Address -> Nat] /\ \A a \in Address : Withheld(a, unit) <= staffLoan[a]
      /\ payloan(unit) \in Nat /\ payloan(unit) = Total(kept)
  BY SalariesAddUp DEF payloan
<1>3. \A a \in Address : kept[a] <= staffLoan[a]
  BY <1>2
<1>4. \A a \in Address : kept[a] = Withheld(a, unit)
  OBVIOUS
<1> HIDE DEF kept
<1>5. Total(kept) <= Total(staffLoan)
  BY <1>1, <1>2, <1>3, TotalMonotone
<1>6. Total(staffLoan) \in Nat /\ Total(kept) \in Nat /\ \A a \in Address : kept[a] <= Total(kept)
  BY <1>1, <1>2, UnitsFinite, TotalBounds
<1>7. payloan(unit) <= ghoDebt
  BY <1>1, <1>2, <1>5, <1>6
<1>8. CASE payloan(unit) = 0
  <2>1. UNCHANGED <<aBalance, ghoDebt>>
    BY <1>8 DEF SalaryPayment
  <2> QED BY <1>1, <1>2, <1>4, <1>6, <1>7, <1>8, <2>1
<1>9. CASE payloan(unit) # 0
  <2>1. PayGhoOwe(payloan(unit))
    BY <1>9 DEF SalaryPayment
  <2>2. Lesser(payloan(unit), ghoDebt) = payloan(unit)
    BY <1>7 DEF Lesser
  <2>3. /\ aBalance[Gho] >= payloan(unit)
        /\ aBalance' = [aBalance EXCEPT ![Gho] = aBalance[Gho] - payloan(unit)]
        /\ ghoDebt' = ghoDebt - payloan(unit)
    BY <2>1, <2>2 DEF PayGhoOwe
  <2>4. aBalance' \in [Asset -> Nat]
    <3>1. aBalance[Gho] - payloan(unit) \in Nat
      BY <1>1, <1>2, <2>3
    <3> QED BY <1>1, <2>3, <3>1
  <2> QED BY <1>2, <1>4, <1>6, <1>7, <2>3, <2>4
<1> QED BY <1>8, <1>9

LEMMA PayrollKeepsLoans ==
  ASSUME RegistryTypeOK, VaultTypeOK, LoanInv, NEW caller \in Address,
         NEW unit \in BaseUnits, SalaryPayment(caller, unit)
  PROVE  LoanInv'
<1> DEFINE kept == [a \in Address |-> Withheld(a, unit)]
           left == [a \in Address |-> IF Listed(a) /\ borrowActive[a] THEN 0 ELSE staffLoan[a]]
           both == [a \in Address |-> left[a] + kept[a]]
<1>1. /\ staffLoan \in [Address -> Nat] /\ borrowActive \in [Address -> BOOLEAN]
      /\ ghoDebt \in Nat /\ Total(staffLoan) <= ghoDebt
      /\ \A a \in Address : borrowActive[a] <=> staffLoan[a] > 0
  BY DEF LoanInv, LoanTypeOK, LoansAreOwedToAave, ActiveIsOwing
<1>2. staffLoan' = left /\ borrowActive' = [a \in Address |-> ~Listed(a) /\ borrowActive[a]]
  BY Zenon DEF SalaryPayment, LoansCleared
<1>3. /\ ghoDebt' = ghoDebt - payloan(unit) /\ payloan(unit) \in Nat
      /\ payloan(unit) <= ghoDebt
  BY PayrollRepays
<1>4. LoanTypeOK'
  <2>1. left \in [Address -> Nat]
    BY <1>1
  <2> HIDE DEF left
  <2> QED BY <1>1, <1>2, <1>3, <2>1 DEF LoanTypeOK
<1>5. ActiveIsOwing'
  <2>1. ASSUME NEW a \in Address
        PROVE  borrowActive'[a] <=> staffLoan'[a] > 0
    <3>1. staffLoan'[a] = IF Listed(a) /\ borrowActive[a] THEN 0 ELSE staffLoan[a]
      BY <1>2
    <3>2. borrowActive'[a] <=> ~Listed(a) /\ borrowActive[a]
      BY <1>2
    <3>3. borrowActive[a] <=> staffLoan[a] > 0
      BY <1>1
    <3>4. ~ (0 > 0)
      OBVIOUS
    <3>5. CASE Listed(a)
      <4>1. CASE borrowActive[a]
        <5>1. staffLoan'[a] = 0
          BY <3>1, <3>5, <4>1
        <5> QED BY <3>2, <3>4, <3>5, <5>1
      <4>2. CASE ~ borrowActive[a]
        <5>1. staffLoan'[a] = staffLoan[a]
          BY <3>1, <4>2
        <5> QED BY <3>2, <3>3, <4>2, <5>1
      <4> QED BY <4>1, <4>2
    <3>6. CASE ~ Listed(a)
      <4>1. staffLoan'[a] = staffLoan[a]
        BY <3>1, <3>6
      <4> QED BY <3>2, <3>3, <3>6, <4>1
    <3> QED BY <3>5, <3>6
  <2> QED BY <2>1 DEF ActiveIsOwing
<1>6. /\ kept \in [Address -> Nat] /\ \A a \in Address : Withheld(a, unit) <= staffLoan[a]
      /\ payloan(unit) = Total(kept)
  BY SalariesAddUp DEF payloan
<1>7. ASSUME NEW a \in Address
      PROVE  left[a] \in Nat /\ left[a] + kept[a] \in Nat /\ left[a] + kept[a] <= staffLoan[a]
  <2>1. CASE Listed(a) /\ borrowActive[a]
    BY <1>1, <1>6, <2>1
  <2>2. CASE ~ (Listed(a) /\ borrowActive[a])
    <3>1. kept[a] = 0
      BY <2>2 DEF Withheld
    <3> QED BY <1>1, <2>2, <3>1
  <2> QED BY <2>1, <2>2
<1>8. left \in [Address -> Nat]
  BY <1>1
<1> HIDE DEF left, kept
<1>9. both \in [Address -> Nat] /\ \A a \in Address : both[a] = left[a] + kept[a]
  BY <1>7
<1>10. \A a \in Address : both[a] <= staffLoan[a]
  BY <1>7, <1>9
<1> HIDE DEF both
<1>11. Total(both) = Total(left) + Total(kept)
  BY <1>6, <1>8, <1>9, TotalSum
<1>12. Total(both) <= Total(staffLoan)
  BY <1>1, <1>9, <1>10, TotalMonotone
<1>13. Total(left) \in Nat /\ Total(kept) \in Nat /\ Total(staffLoan) \in Nat
  BY <1>1, <1>6, <1>8, UnitsFinite
<1>14. LoansAreOwedToAave'
  BY <1>1, <1>2, <1>3, <1>6, <1>11, <1>12, <1>13 DEF LoansAreOwedToAave
<1> QED BY <1>4, <1>5, <1>14 DEF LoanInv

-----------------------------------------------------------------------------
(***************************************************************************)
(* The inductive invariant of the dashboard's money, beside the invariants *)
(* of the staff: the vault, the loans, the books and the types.            *)
(***************************************************************************)
PayTypes ==
  /\ certificates \in Seq(Address)
  /\ lastPayOut \in Nat
  /\ TotalPayOut \in Nat
  /\ funded \in Nat
  /\ withheld \in Nat

MoneyInv ==
  /\ VaultInv
  /\ LoanInv
  /\ PayTypes
  /\ BooksBalance

LEMMA SalaryPaymentKeeps ==
  ASSUME RegistryTypeOK, AttendanceTypeOK, MoneyInv, NEW caller \in Address,
         NEW unit \in BaseUnits, SalaryPayment(caller, unit)
  PROVE  MoneyInv'
<1>1. RegistryTypeOK /\ VaultTypeOK /\ LoanInv
  BY DEF MoneyInv, VaultInv
<1>2. LoanInv'
  BY <1>1, PayrollKeepsLoans
<1>3. /\ \A a \in Address : Received(a, unit) \in Nat
      /\ payloan(unit) \in Nat /\ PaidOut(unit) \in Nat
      /\ totalPayment = PaidOut(unit) + payloan(unit)
  BY <1>1, SalariesAddUp
<1>4. /\ wallet \in [Asset -> [Holder -> Nat]] /\ wallet[PayToken][Dashboard] \in Nat
      /\ wallet[PayToken][Dashboard] >= totalPayment
      /\ TotalPayOut' = TotalPayOut + totalPayment /\ withheld' = withheld + payloan(unit)
      /\ lastPayOut' = totalPayment
      /\ UNCHANGED <<gained, staffShares, totalShares, funded>>
  BY <1>1 DEF SalaryPayment, VaultTypeOK, Holder
<1> DEFINE paid == [h \in Holder |-> IF h = Dashboard THEN wallet[PayToken][h] - PaidOut(unit)
                                    ELSE wallet[PayToken][h] + Received(h, unit)]
<1>5. wallet' = [wallet EXCEPT ![PayToken] = paid]
  BY DEF SalaryPayment
<1>6. paid \in [Holder -> Nat]
  <2>1. wallet[PayToken][Dashboard] - PaidOut(unit) \in Nat
    BY <1>3, <1>4
  <2>2. ASSUME NEW h \in Address
        PROVE  wallet[PayToken][h] + Received(h, unit) \in Nat
    <3>1. wallet[PayToken][h] \in Nat
      BY <1>4 DEF Holder
    <3> QED BY <1>3, <3>1
  <2> QED BY <2>1, <2>2 DEF Holder
<1>7. paid[Dashboard] = wallet[PayToken][Dashboard] - PaidOut(unit)
  BY DEF Holder
<1> HIDE DEF paid
<1>8. /\ wallet' \in [Asset -> [Holder -> Nat]]
      /\ wallet'[PayToken][Dashboard] = wallet[PayToken][Dashboard] - PaidOut(unit)
  BY <1>4, <1>5, <1>6, <1>7
<1>9. VaultInv'
  <2>1. aBalance' \in [Asset -> Nat]
    BY <1>1, PayrollRepays
  <2> QED BY <1>4, <1>8, <2>1 DEF MoneyInv, VaultInv, VaultTypeOK, TotalIsSum
<1>10. certificates' \in Seq(Address)
  <2>1. allStaffs \in Seq(Address) /\ attendanceCounter \in [Address -> Nat]
    BY DEF RegistryTypeOK, AttendanceTypeOK
  <2>2. BestAmong(Len(allStaffs), checkHighestAttendance)
    BY <2>1, BestOfTheList
  <2>3. checkHighestAttendance # NoStaff
        /\ certificates' = Append(certificates, checkHighestAttendance)
    BY DEF SalaryPayment, safeMint
  <2>4. checkHighestAttendance \in Address
    BY <2>1, <2>2, <2>3 DEF BestAmong
  <2>5. certificates \in Seq(Address)
    BY DEF MoneyInv, PayTypes
  <2> QED BY <2>3, <2>4, <2>5
<1>11. TotalPayOut \in Nat /\ withheld \in Nat /\ funded \in Nat
       /\ wallet[PayToken][Dashboard] + TotalPayOut = funded + withheld
  BY DEF MoneyInv, PayTypes, BooksBalance
<1>12. PayTypes'
  <2>1. lastPayOut' \in Nat /\ TotalPayOut' \in Nat /\ withheld' \in Nat /\ funded' \in Nat
    BY <1>3, <1>4, <1>11
  <2> QED BY <1>10, <2>1 DEF PayTypes
<1>13. BooksBalance'
  BY <1>3, <1>4, <1>8, <1>11 DEF BooksBalance
<1> QED BY <1>2, <1>9, <1>12, <1>13 DEF MoneyInv

LEMMA FundKeeps ==
  ASSUME MoneyInv, NEW from \in Address, NEW amount \in Nat, Fund(from, amount)
  PROVE  MoneyInv'
<1>1. /\ wallet \in [Asset -> [Holder -> Nat]] /\ wallet[PayToken] \in [Holder -> Nat]
      /\ from \in Holder /\ Dashboard \in Holder /\ from # Dashboard
  BY DEF MoneyInv, VaultInv, VaultTypeOK, Holder
<1>2. /\ wallet[PayToken][from] - amount \in Nat
      /\ wallet[PayToken][Dashboard] + amount \in Nat
      /\ funded' = funded + amount
  BY <1>1 DEF Fund
<1> DEFINE less == [wallet[PayToken] EXCEPT ![from] = wallet[PayToken][from] - amount]
           paid == [less EXCEPT ![Dashboard] = wallet[PayToken][Dashboard] + amount]
<1>3. /\ less \in [Holder -> Nat] /\ paid \in [Holder -> Nat]
      /\ less[Dashboard] = wallet[PayToken][Dashboard]
      /\ paid[Dashboard] = wallet[PayToken][Dashboard] + amount
  BY <1>1, <1>2
<1>4. wallet' = [wallet EXCEPT ![PayToken] = paid]
  BY <1>1, <1>3 DEF Fund
<1> HIDE DEF less, paid
<1>5. /\ wallet' \in [Asset -> [Holder -> Nat]]
      /\ wallet'[PayToken][Dashboard] = wallet[PayToken][Dashboard] + amount
  BY <1>1, <1>3, <1>4
<1>6. /\ UNCHANGED <<aBalance, gained, staffShares, totalShares>>
      /\ UNCHANGED loanVars
      /\ UNCHANGED <<certificates, lastPayOut, TotalPayOut, withheld>>
  BY DEF Fund
<1>7. VaultInv'
  BY <1>5, <1>6 DEF MoneyInv, VaultInv, VaultTypeOK, TotalIsSum
<1>8. LoanInv'
  BY <1>6 DEF loanVars, MoneyInv, LoanInv, LoanTypeOK, ActiveIsOwing, LoansAreOwedToAave
<1>9. PayTypes'
  BY <1>2, <1>6 DEF MoneyInv, PayTypes
<1>10. BooksBalance'
  <2>1. /\ wallet[PayToken][Dashboard] \in Nat /\ TotalPayOut \in Nat
        /\ funded \in Nat /\ withheld \in Nat
        /\ wallet[PayToken][Dashboard] + TotalPayOut = funded + withheld
    BY <1>1 DEF MoneyInv, PayTypes, BooksBalance
  <2>2. /\ TotalPayOut' = TotalPayOut /\ withheld' = withheld /\ funded' = funded + amount
        /\ wallet'[PayToken][Dashboard] = wallet[PayToken][Dashboard] + amount
    BY <1>2, <1>5, <1>6
  <2> QED BY <2>1, <2>2 DEF BooksBalance
<1> QED BY <1>7, <1>8, <1>9, <1>10 DEF MoneyInv

\* The loans keep the vault: they pay into the accounts' wallets, and burn
\* aTokens.
LEMMA LoanStepKeepsVault ==
  ASSUME VaultInv, LoanInv, LoanNext
  PROVE  VaultInv'
<1>1. CASE \E interest \in Interests : InterestAccrues(interest)
  BY <1>1, Zenon DEF InterestAccrues, vaultVars, VaultInv, VaultTypeOK, TotalIsSum
<1>2. ASSUME NEW _staff \in Address, NEW desiredAmount \in Loans,
             BorrowGHOTokens(_staff, desiredAmount)
      PROVE  VaultInv'
  <2>1. /\ wallet \in [Asset -> [Holder -> Nat]] /\ wallet[Gho] \in [Holder -> Nat]
        /\ _staff \in Holder
    BY DEF VaultInv, VaultTypeOK, Holder
  <2>2. wallet[Gho][_staff] + desiredAmount \in Nat
    BY <2>1
  <2>3. wallet' = [wallet EXCEPT ![Gho] =
                    [wallet[Gho] EXCEPT ![_staff] = wallet[Gho][_staff] + desiredAmount]]
    BY <1>2, <2>1 DEF BorrowGHOTokens
  <2>4. wallet' \in [Asset -> [Holder -> Nat]]
    BY <2>1, <2>2, <2>3
  <2> QED BY <1>2, <2>4 DEF BorrowGHOTokens, VaultInv, VaultTypeOK, TotalIsSum
<1>3. ASSUME NEW _staff \in Address, NEW unit \in BaseUnits, PaybackLoan(_staff, unit)
      PROVE  VaultInv'
  <2>1. /\ ghoPayback(_staff, unit) \in Nat
        /\ ghoPayback(_staff, unit) <= ghoDebt
        /\ aBalance \in [Asset -> Nat]
    BY <1>3, PaybackEffect DEF VaultInv, VaultTypeOK
  <2>2. Lesser(ghoPayback(_staff, unit), ghoDebt) = ghoPayback(_staff, unit)
    BY <2>1 DEF Lesser
  <2>3. /\ aBalance[Gho] >= ghoPayback(_staff, unit)
        /\ aBalance' = [aBalance EXCEPT ![Gho] = aBalance[Gho] - ghoPayback(_staff, unit)]
    BY <1>3, <2>2 DEF PaybackLoan, PayGhoOwe
  <2>4. aBalance' \in [Asset -> Nat]
    <3>1. aBalance[Gho] - ghoPayback(_staff, unit) \in Nat
      BY <2>1, <2>3
    <3> QED BY <2>1, <2>3, <3>1
  <2> QED BY <1>3, <2>4 DEF PaybackLoan, VaultInv, VaultTypeOK, TotalIsSum
<1> QED BY <1>1, <1>2, <1>3 DEF LoanNext

\* Neither the vault nor the loans touch the tokens that the dashboard pays
\* salaries from: they move tokens from and to the accounts' wallets only.
LEMMA CreditKeepsFunds ==
  ASSUME VaultTypeOK, CreditNext
  PROVE  wallet'[PayToken][Dashboard] = wallet[PayToken][Dashboard]
<1>1. /\ wallet \in [Asset -> [Holder -> Nat]]
      /\ \A asset \in Asset : wallet[asset] \in [Holder -> Nat]
      /\ \A a \in Address : a \in Holder /\ a # Dashboard
      /\ Dashboard \in Holder
  BY DEF VaultTypeOK, Holder
<1>2. ASSUME NEW asset \in Asset, NEW a \in Address, NEW n,
             wallet' = [wallet EXCEPT ![asset][a] = n]
      PROVE  wallet'[PayToken][Dashboard] = wallet[PayToken][Dashboard]
  <2>1. wallet' = [wallet EXCEPT ![asset] = [wallet[asset] EXCEPT ![a] = n]]
    BY <1>1, <1>2
  <2>2. [wallet[asset] EXCEPT ![a] = n][Dashboard] = wallet[asset][Dashboard]
    BY <1>1
  <2> QED BY <1>1, <2>1, <2>2
<1>3. CASE wallet' = wallet
  BY <1>3
<1>4. ASSUME NEW asset \in Asset, NEW gain \in Gains, ATokensArrive(asset, gain)
      PROVE  wallet' = wallet
  BY <1>4 DEF ATokensArrive
<1>5. ASSUME NEW asset \in Asset, NEW caller \in Address, NEW _staff \in Address,
             NEW _amount \in Payments, BuyShares(caller, _staff, _amount, asset)
      PROVE  wallet'[PayToken][Dashboard] = wallet[PayToken][Dashboard]
  <2>1. wallet' = [wallet EXCEPT ![asset][_staff] = wallet[asset][_staff] - _amount]
    BY <1>5 DEF BuyShares, Supply
  <2> QED BY <1>2, <2>1
<1>6. ASSUME NEW asset \in Asset, NEW _staff \in Address, WithdrawShares(_staff, asset)
      PROVE  wallet'[PayToken][Dashboard] = wallet[PayToken][Dashboard]
  <2>1. wallet' = [wallet EXCEPT ![asset][_staff] =
                    wallet[asset][_staff] + Value(staffShares[_staff])]
    BY <1>6 DEF WithdrawShares, WithdrawalGranted, Withdraw, Withdrawable
  <2> QED BY <1>2, <2>1
<1>7. ASSUME NEW _staff \in Address, NEW desiredAmount \in Loans,
             BorrowGHOTokens(_staff, desiredAmount)
      PROVE  wallet'[PayToken][Dashboard] = wallet[PayToken][Dashboard]
  <2>1. wallet' = [wallet EXCEPT ![Gho][_staff] = wallet[Gho][_staff] + desiredAmount]
    BY <1>7 DEF BorrowGHOTokens
  <2> QED BY <1>2, <2>1
<1>8. CASE VaultNext
  BY <1>3, <1>4, <1>5, <1>6, <1>8 DEF VaultNext
<1>9. CASE LoanNext
  BY <1>3, <1>7, <1>9 DEF LoanNext, InterestAccrues, PaybackLoan, vaultVars
<1> QED BY <1>3, <1>8, <1>9 DEF CreditNext, SavingsNext, vaultVars

LEMMA MoneyStepKeeps ==
  ASSUME RegistryTypeOK, AttendanceTypeOK, MoneyInv, [DashboardNext]_dashboardVars
  PROVE  MoneyInv'
<1>1. ASSUME NEW caller \in Address, NEW unit \in BaseUnits, SalaryPayment(caller, unit)
      PROVE  MoneyInv'
  BY <1>1, SalaryPaymentKeeps
<1>2. ASSUME NEW from \in Address, NEW amount \in Funds, Fund(from, amount)
      PROVE  MoneyInv'
  BY <1>2, FundKeeps
<1>3. CASE CreditNext /\ UNCHANGED <<attendanceVars, payVars>>
  <2>1. VaultInv /\ LoanInv /\ VaultTypeOK
    BY DEF MoneyInv, VaultInv
  <2>2. LoanInv'
    BY <1>3, <2>1, CreditStepKeeps
  <2>3. VaultInv'
    <3>1. CASE LoanNext
      BY <2>1, <3>1, LoanStepKeepsVault
    <3>2. CASE SavingsNext
      BY <2>1, <3>2, VaultStepKeeps
    <3> QED BY <1>3, <3>1, <3>2 DEF CreditNext
  <2>4. PayTypes'
    BY <1>3 DEF payVars, MoneyInv, PayTypes
  <2>5. BooksBalance'
    <3>1. wallet'[PayToken][Dashboard] = wallet[PayToken][Dashboard]
      BY <1>3, <2>1, CreditKeepsFunds
    <3>2. TotalPayOut' = TotalPayOut /\ funded' = funded /\ withheld' = withheld
      BY <1>3 DEF payVars
    <3> QED BY <3>1, <3>2 DEF MoneyInv, BooksBalance
  <2> QED BY <2>2, <2>3, <2>4, <2>5 DEF MoneyInv
<1>4. CASE UNCHANGED <<vaultVars, loanVars, payVars>>
  <2>1. VaultInv'
    BY <1>4 DEF vaultVars, MoneyInv, VaultInv, VaultTypeOK, TotalIsSum
  <2>2. LoanInv'
    BY <1>4 DEF loanVars, MoneyInv, LoanInv, LoanTypeOK, ActiveIsOwing, LoansAreOwedToAave
  <2>3. PayTypes' /\ BooksBalance'
    BY <1>4 DEF vaultVars, payVars, MoneyInv, PayTypes, BooksBalance
  <2> QED BY <2>1, <2>2, <2>3 DEF MoneyInv
<1>5. CASE AttendanceNext /\ UNCHANGED <<registryVars, vaultVars, loanVars, payVars>>
  BY <1>4, <1>5
<1>6. CASE UNCHANGED dashboardVars
  BY <1>4, <1>6 DEF dashboardVars
<1> QED BY <1>1, <1>2, <1>3, <1>5, <1>6 DEF DashboardNext

LEMMA MoneyInitially == DashboardInit => MoneyInv
<1> SUFFICES ASSUME DashboardInit
             PROVE  MoneyInv
  OBVIOUS
<1>1. VaultInv /\ LoanInv
  BY VaultInitially, LoansInitially DEF DashboardInit
<1>2. PayTypes
  BY DEF DashboardInit, PayInit, PayTypes
<1>3. BooksBalance
  <2>1. wallet[PayToken][Dashboard] = 0
    BY DEF DashboardInit, VaultInit, Holder
  <2> QED BY <2>1 DEF DashboardInit, PayInit, BooksBalance
<1> QED BY <1>1, <1>2, <1>3 DEF MoneyInv

LEMMA DashboardStaffTypes ==
  /\ DashboardSpec => []RegistryTypeOK
  /\ DashboardSpec => []AttendanceTypeOK
<1>1. OfficeTypeOK => RegistryTypeOK
  BY DEF OfficeTypeOK
<1>2. OfficeTypeOK => AttendanceTypeOK
  BY DEF OfficeTypeOK
<1>3. DashboardSpec => []OfficeTypeOK
  BY DashboardHasOffice, OfficeTypeCorrect, PTL
<1>4. DashboardSpec => []RegistryTypeOK
  BY <1>1, <1>3, PTL
<1>5. DashboardSpec => []AttendanceTypeOK
  BY <1>2, <1>3, PTL
<1> QED BY <1>4, <1>5

LEMMA MoneyInvariant == DashboardSpec => []MoneyInv
<1>1. RegistryTypeOK /\ AttendanceTypeOK /\ MoneyInv /\ [DashboardNext]_dashboardVars => MoneyInv'
  BY MoneyStepKeeps
<1> QED BY <1>1, MoneyInitially, DashboardStaffTypes, PTL DEF DashboardSpec

-----------------------------------------------------------------------------
\* The dashboard keeps its types: no payroll, loan, purchase or withdrawal
\* takes a balance below zero, and no certificate goes to address(0).
THEOREM DashboardTypeCorrect == DashboardSpec => []DashboardTypeOK
<1>1. RegistryTypeOK /\ AttendanceTypeOK /\ MoneyInv => DashboardTypeOK
  BY DEF MoneyInv, VaultInv, LoanInv, PayTypes, DashboardTypeOK
<1> QED BY <1>1, DashboardStaffTypes, MoneyInvariant, PTL

\* The dashboard's tokens are what it was sent, less the payrolls, plus what
\* the payrolls withheld, for lists with any repeated entries.
THEOREM BooksAlwaysBalance == DashboardSpec => []BooksBalance
<1>1. MoneyInv => BooksBalance
  BY DEF MoneyInv
<1> QED BY <1>1, MoneyInvariant, PTL

\* totalShares is the sum of the shares beside loans and payrolls as well.
THEOREM DashboardSharesAddUp == DashboardSpec => []TotalIsSum
<1>1. MoneyInv => TotalIsSum
  BY DEF MoneyInv, VaultInv
<1> QED BY <1>1, MoneyInvariant, PTL

\* Payrolls clear a loan and its flag together.
THEOREM DashboardActiveMeansOwing == DashboardSpec => []ActiveIsOwing
<1>1. MoneyInv => ActiveIsOwing
  BY DEF MoneyInv, LoanInv
<1> QED BY <1>1, MoneyInvariant, PTL

\* The dashboard owes Aave at least the sum of its staff's loans when payrolls
\* withhold and clear them too.
THEOREM DashboardLoansWithinDebt == DashboardSpec => []LoansAreOwedToAave
<1>1. MoneyInv => LoansAreOwedToAave
  BY DEF MoneyInv, LoanInv
<1> QED BY <1>1, MoneyInvariant, PTL

\* What a step does that changes TotalPayOut, the certificates or what was
\* withheld: it is a payroll.
LEMMA OnlyPayrolls ==
  ASSUME [DashboardNext]_dashboardVars,
         \/ withheld' # withheld
         \/ TotalPayOut' # TotalPayOut
         \/ certificates' # certificates
  PROVE  \E caller \in Address, unit \in BaseUnits : SalaryPayment(caller, unit)
BY DEF DashboardNext, dashboardVars, payVars, Fund

\* All that a payroll withholds reaches Aave, however many borrowers it has.
THEOREM PayrollsRepay == DashboardSpec => WithheldIsRepaid
<1>1. RegistryTypeOK /\ MoneyInv /\ [DashboardNext]_dashboardVars =>
        (withheld' # withheld => withheld' - withheld = ghoDebt - ghoDebt')
  <2>1. SUFFICES ASSUME RegistryTypeOK, MoneyInv, [DashboardNext]_dashboardVars,
                        withheld' # withheld
                 PROVE  withheld' - withheld = ghoDebt - ghoDebt'
    OBVIOUS
  <2>2. PICK caller \in Address, unit \in BaseUnits : SalaryPayment(caller, unit)
    BY <2>1, OnlyPayrolls
  <2>3. /\ VaultTypeOK /\ LoanInv /\ withheld \in Nat /\ ghoDebt \in Nat
    BY <2>1 DEF MoneyInv, VaultInv, LoanInv, LoanTypeOK, PayTypes
  <2>4. payloan(unit) \in Nat /\ ghoDebt' = ghoDebt - payloan(unit)
    BY <2>1, <2>2, <2>3, PayrollRepays
  <2>5. withheld' = withheld + payloan(unit)
    BY <2>2 DEF SalaryPayment
  <2> QED BY <2>3, <2>4, <2>5
<1>2. DashboardSpec => [][DashboardNext]_dashboardVars
  BY DEF DashboardSpec
<1> QED BY <1>1, <1>2, DashboardStaffTypes, MoneyInvariant, PTL DEF WithheldIsRepaid

\* A payroll leaves no member of staff with a loan to withhold again.
THEOREM PayrollsClear == DashboardSpec => PayrollClearsLoans
<1>1. RegistryTypeOK /\ MoneyInv /\ [DashboardNext]_dashboardVars =>
        (TotalPayOut' # TotalPayOut =>
           \A a \in Address : Listed(a)' => ~borrowActive'[a] /\ staffLoan'[a] = 0)
  <2>1. SUFFICES ASSUME RegistryTypeOK, MoneyInv, [DashboardNext]_dashboardVars,
                        TotalPayOut' # TotalPayOut, NEW a \in Address, Listed(a)'
                 PROVE  ~borrowActive'[a] /\ staffLoan'[a] = 0
    OBVIOUS
  <2>2. PICK caller \in Address, unit \in BaseUnits : SalaryPayment(caller, unit)
    BY <2>1, OnlyPayrolls
  <2>3. Listed(a)
    BY <2>1, <2>2 DEF SalaryPayment, registryVars, Listed
  <2>4. /\ staffLoan \in [Address -> Nat]
        /\ borrowActive[a] <=> staffLoan[a] > 0
    BY <2>1 DEF MoneyInv, LoanInv, LoanTypeOK, ActiveIsOwing
  <2>5. ~borrowActive'[a]
    BY <2>2, <2>3 DEF SalaryPayment
  <2>6. staffLoan'[a] = IF borrowActive[a] THEN 0 ELSE staffLoan[a]
    BY <2>2, <2>3 DEF SalaryPayment, LoansCleared
  <2>7. staffLoan'[a] = 0
    <3>1. ~borrowActive[a] => staffLoan[a] = 0
      <4>1. staffLoan[a] \in Nat /\ (~ (staffLoan[a] > 0) => staffLoan[a] = 0)
        BY <2>4
      <4> QED BY <2>4, <4>1
    <3> QED BY <2>6, <3>1
  <2> QED BY <2>5, <2>7
<1>2. DashboardSpec => [][DashboardNext]_dashboardVars
  BY DEF DashboardSpec
<1> QED BY <1>1, <1>2, DashboardStaffTypes, MoneyInvariant, PTL DEF PayrollClearsLoans

\* A payroll's certificate goes to the first of the listed accounts with the
\* most attendance credits, for a list of any length.
THEOREM BestAreAwarded == DashboardSpec => AwardToTheBest
<1>1. RegistryTypeOK /\ AttendanceTypeOK /\ MoneyInv /\ [DashboardNext]_dashboardVars =>
        (certificates' # certificates =>
           \E i \in DOMAIN allStaffs :
             /\ Last(certificates') = allStaffs[i]
             /\ attendanceCounter[allStaffs[i]] > 0
             /\ \A j \in DOMAIN allStaffs :
                  /\ attendanceCounter[allStaffs[j]] <= attendanceCounter[allStaffs[i]]
                  /\ j < i => attendanceCounter[allStaffs[j]] < attendanceCounter[allStaffs[i]])
  <2>1. SUFFICES ASSUME RegistryTypeOK, AttendanceTypeOK, MoneyInv,
                        [DashboardNext]_dashboardVars, certificates' # certificates
                 PROVE  \E i \in DOMAIN allStaffs :
                          /\ Last(certificates') = allStaffs[i]
                          /\ Credits(i) > 0
                          /\ \A j \in DOMAIN allStaffs :
                               Credits(j) <= Credits(i) /\ (j < i => Credits(j) < Credits(i))
    BY DEF Credits
  <2>2. PICK caller \in Address, unit \in BaseUnits : SalaryPayment(caller, unit)
    BY <2>1, OnlyPayrolls
  <2>3. allStaffs \in Seq(Address) /\ attendanceCounter \in [Address -> Nat]
    BY <2>1 DEF RegistryTypeOK, AttendanceTypeOK
  <2>4. BestAmong(Len(allStaffs), checkHighestAttendance)
    BY <2>3, BestOfTheList
  <2>5. checkHighestAttendance # NoStaff
        /\ certificates' = Append(certificates, checkHighestAttendance)
    BY <2>2 DEF SalaryPayment, safeMint
  <2>6. PICK i \in 1 .. Len(allStaffs) :
          /\ checkHighestAttendance = allStaffs[i]
          /\ FirstOfTheBest(Len(allStaffs), i)
    BY <2>4, <2>5 DEF BestAmong
  <2>7. checkHighestAttendance \in Address /\ certificates \in Seq(Address)
    BY <2>1, <2>3, <2>6 DEF MoneyInv, PayTypes
  <2>8. Last(certificates') = checkHighestAttendance
    BY <2>5, <2>7 DEF Last
  <2>9. DOMAIN allStaffs = 1 .. Len(allStaffs)
    BY <2>3
  <2> QED BY <2>6, <2>8, <2>9 DEF FirstOfTheBest
<1>2. DashboardSpec => [][DashboardNext]_dashboardVars
  BY DEF DashboardSpec
<1> QED BY <1>1, <1>2, DashboardStaffTypes, MoneyInvariant, PTL DEF AwardToTheBest

\* A payback leaves the company less than totalDebtETH, and no less than before.
LEMMA PaybackLeaves ==
  ASSUME LoanInv, NEW _staff \in Address, NEW unit \in BaseUnits,
         PaybackLoan(_staff, unit)
  PROVE  /\ Uncovered' >= Uncovered
         /\ Uncovered' - Uncovered < totalDebtETH(unit)
<1> DEFINE paid == ghoPayback(_staff, unit)
           most == totalDebtETH(unit)
<1>1. staffLoan \in [Address -> Nat] /\ ghoDebt \in Nat
  BY DEF LoanInv, LoanTypeOK
<1>2. /\ most \in Nat /\ paid \in Nat
      /\ paid <= staffLoan[_staff] /\ staffLoan[_staff] - paid < most
      /\ ghoDebt' = ghoDebt - paid
      /\ staffLoan' = [staffLoan EXCEPT ![_staff] = 0]
  BY PaybackEffect
<1> HIDE DEF paid, most
<1>3. /\ staffLoan' \in [Address -> Nat] /\ staffLoan'[_staff] = 0
      /\ \A b \in Address : b # _staff => staffLoan'[b] = staffLoan[b]
  BY <1>1, <1>2
<1>4. /\ Total(staffLoan) \in Nat
      /\ Total(staffLoan') = Total(staffLoan) - staffLoan[_staff] + staffLoan'[_staff]
  BY <1>1, <1>3, LoansUpdate
<1>5. Uncovered = ghoDebt - Total(staffLoan) /\ Uncovered' = ghoDebt' - Total(staffLoan')
  BY DEF Uncovered
<1> DEFINE loan == staffLoan[_staff]
<1>6. Uncovered' - Uncovered = loan - paid
  BY <1>1, <1>2, <1>3, <1>4, <1>5
<1>7. Uncovered \in Int /\ Uncovered' \in Int /\ loan \in Nat
  BY <1>1, <1>2, <1>3, <1>4, <1>5
<1>8. /\ most \in Nat /\ paid \in Nat
      /\ paid <= loan /\ loan - paid < most
  BY <1>2
<1> HIDE DEF loan
<1>9. Uncovered' - Uncovered < most
  BY <1>6, <1>8
<1>10. Uncovered' >= Uncovered
  <2>1. \A m, n \in Int, k, l \in Nat : m - n = l - k /\ k <= l => m >= n
    OBVIOUS
  <2> QED BY <1>6, <1>7, <1>8, <2>1
<1> QED BY <1>9, <1>10 DEF most

\* A payroll clears loans for no more than they are, and for each of them it
\* leaves the company less than totalDebtETH.
LEMMA PayrollLeaves ==
  ASSUME RegistryTypeOK, VaultTypeOK, LoanInv, NEW caller \in Address,
         NEW unit \in BaseUnits, SalaryPayment(caller, unit)
  PROVE  /\ Uncovered' >= Uncovered
         /\ Uncovered' - Uncovered <= MostLeft(unit)
<1> DEFINE Clears(a) == Listed(a) /\ borrowActive[a]
           kept == [a \in Address |-> Withheld(a, unit)]
           left == [a \in Address |-> IF Clears(a) THEN 0 ELSE staffLoan[a]]
           cleared == [a \in Address |-> IF Clears(a) THEN staffLoan[a] ELSE 0]
           most == [a \in Address |-> IF Clears(a) THEN totalDebtETH(unit) - 1 ELSE 0]
           both == [a \in Address |-> kept[a] + most[a]]
<1>1. /\ staffLoan \in [Address -> Nat] /\ ghoDebt \in Nat /\ unit \in Nat \ {0}
      /\ Total(staffLoan) <= ghoDebt
  BY DEF LoanInv, LoanTypeOK, LoansAreOwedToAave
<1>2. staffLoan' = left
  BY Zenon DEF SalaryPayment, LoansCleared
<1>3. /\ ghoDebt' = ghoDebt - payloan(unit) /\ payloan(unit) \in Nat
  BY PayrollRepays
<1>4. kept \in [Address -> Nat] /\ payloan(unit) = Total(kept)
  BY SalariesAddUp DEF payloan
<1>5. ASSUME NEW a \in Address, Clears(a)
      PROVE  /\ totalDebtETH(unit) \in Nat \ {0}
             /\ kept[a] <= staffLoan[a]
             /\ staffLoan[a] - kept[a] < totalDebtETH(unit)
  <2>1. totalDebtETH(unit) # 0
    BY <1>5 DEF SalaryPayment, Listed
  <2>2. totalDebtETH(unit) \in Nat \ {0}
    <3>1. ghoDebt \div unit \in Nat
      BY <1>1
    <3> QED BY <2>1, <3>1 DEF totalDebtETH
  <2>3. kept[a] = (staffLoan[a] \div totalDebtETH(unit)) * totalDebtETH(unit)
    BY <1>5 DEF Withheld, ghoPayback
  <2>4. staffLoan[a] \in Nat
    BY <1>1
  <2> QED BY <2>2, <2>3, <2>4, RoundedDown
<1>6. \A a \in Address : ~ Clears(a) => kept[a] = 0
  BY DEF Withheld
<1>7. /\ left \in [Address -> Nat] /\ cleared \in [Address -> Nat]
      /\ \A a \in Address : staffLoan[a] = left[a] + cleared[a]
  BY <1>1
<1>8. most \in [Address -> Nat]
  <2>1. ASSUME NEW a \in Address
        PROVE  (IF Clears(a) THEN totalDebtETH(unit) - 1 ELSE 0) \in Nat
    <3>1. CASE Clears(a)
      <4>1. totalDebtETH(unit) \in Nat \ {0}
        BY <1>5, <3>1
      <4> QED BY <3>1, <4>1
    <3>2. CASE ~ Clears(a)
      BY <3>2
    <3> QED BY <3>1, <3>2
  <2> QED BY <2>1
<1>9. ASSUME NEW a \in Address
      PROVE  kept[a] <= cleared[a] /\ cleared[a] <= kept[a] + most[a]
  <2>1. CASE Clears(a)
    <3>1. cleared[a] = staffLoan[a] /\ most[a] = totalDebtETH(unit) - 1
      BY <2>1
    <3>2. /\ totalDebtETH(unit) \in Nat \ {0} /\ kept[a] <= staffLoan[a]
          /\ staffLoan[a] - kept[a] < totalDebtETH(unit)
      BY <1>5, <2>1
    <3>3. staffLoan[a] \in Nat /\ kept[a] \in Nat
      BY <1>1, <1>4
    <3> HIDE DEF kept, cleared, most
    <3> QED BY <3>1, <3>2, <3>3
  <2>2. CASE ~ Clears(a)
    <3>1. cleared[a] = 0 /\ most[a] = 0 /\ kept[a] = 0
      BY <1>6, <2>2
    <3> HIDE DEF kept, cleared, most
    <3> QED BY <3>1
  <2> QED BY <2>1, <2>2
<1>10. MostLeft(unit) = Total(most)
  BY DEF MostLeft
<1> HIDE DEF kept, left, cleared, most
<1>11. both \in [Address -> Nat] /\ \A a \in Address : both[a] = kept[a] + most[a]
  BY <1>4, <1>8
<1> HIDE DEF both
<1>12. Total(staffLoan) = Total(left) + Total(cleared)
  BY <1>1, <1>7, TotalSum
<1>13. Total(both) = Total(kept) + Total(most)
  BY <1>4, <1>8, <1>11, TotalSum
<1>14. Total(kept) <= Total(cleared)
  BY <1>4, <1>7, <1>9, TotalMonotone
<1>15. Total(cleared) <= Total(both)
  <2>1. \A a \in Address : cleared[a] <= both[a]
    BY <1>9, <1>11
  <2> QED BY <1>7, <1>11, <2>1, TotalMonotone
<1>16. /\ Total(left) \in Nat /\ Total(cleared) \in Nat /\ Total(kept) \in Nat
       /\ Total(most) \in Nat
  BY <1>4, <1>7, <1>8, UnitsFinite
<1>17. Uncovered' - Uncovered = Total(cleared) - Total(kept)
       /\ Uncovered \in Int /\ Uncovered' \in Int
  <2>1. Uncovered = ghoDebt - Total(staffLoan) /\ Uncovered' = ghoDebt' - Total(staffLoan')
    BY DEF Uncovered
  <2>2. Total(staffLoan') = Total(left)
    BY <1>2
  <2> QED BY <1>1, <1>3, <1>4, <1>12, <1>16, <2>1, <2>2
<1> QED BY <1>10, <1>13, <1>14, <1>15, <1>16, <1>17

\* In the whole dashboard nobody repays more than the loan, and what clearing
\* loans leaves to the company is less than totalDebtETH for each of them.
THEOREM CompanyPaysTheRest == DashboardSpec => CompanyBearsTheRest
<1> DEFINE Step ==
      /\ Uncovered' >= Uncovered
      /\ \A unit \in BaseUnits :
           /\ (\E _staff \in Address : PaybackLoan(_staff, unit)) =>
                Uncovered' - Uncovered < totalDebtETH(unit)
           /\ (\E caller \in Address : SalaryPayment(caller, unit)) =>
                Uncovered' - Uncovered <= MostLeft(unit)
<1>1. RegistryTypeOK /\ MoneyInv /\ [DashboardNext]_dashboardVars => Step
  <2>1. SUFFICES ASSUME RegistryTypeOK, MoneyInv, [DashboardNext]_dashboardVars
                 PROVE  Step
    OBVIOUS
  <2>2. /\ VaultTypeOK /\ LoanInv /\ ghoDebt \in Nat
        /\ staffLoan \in [Address -> Nat]
    BY <2>1 DEF MoneyInv, VaultInv, LoanInv, LoanTypeOK
  <2>3. Total(staffLoan) \in Nat
    BY <2>2, UnitsFinite
  <2>4. ASSUME NEW interest \in Interests, InterestAccrues(interest)
        PROVE  Uncovered' >= Uncovered
    <3>1. interest \in Nat /\ ghoDebt' = ghoDebt + interest /\ staffLoan' = staffLoan
      BY <2>4 DEF InterestAccrues
    <3> QED BY <2>2, <2>3, <3>1 DEF Uncovered
  <2>5. ASSUME NEW _staff \in Address, NEW desiredAmount \in Loans,
               BorrowGHOTokens(_staff, desiredAmount)
        PROVE  Uncovered' >= Uncovered
    <3>1. /\ desiredAmount \in Nat /\ ghoDebt' = ghoDebt + desiredAmount
          /\ staffLoan' = [staffLoan EXCEPT ![_staff] = staffLoan[_staff] + desiredAmount]
      BY <2>5 DEF BorrowGHOTokens
    <3>2. /\ staffLoan' \in [Address -> Nat]
          /\ staffLoan'[_staff] = staffLoan[_staff] + desiredAmount
          /\ staffLoan[_staff] \in Nat
          /\ \A b \in Address : b # _staff => staffLoan'[b] = staffLoan[b]
      BY <2>2, <3>1
    <3>3. Total(staffLoan') = Total(staffLoan) - staffLoan[_staff] + staffLoan'[_staff]
      BY <2>2, <3>2, LoansUpdate
    <3>4. Uncovered = ghoDebt - Total(staffLoan) /\ Uncovered' = ghoDebt' - Total(staffLoan')
      BY DEF Uncovered
    <3> QED BY <2>2, <2>3, <3>1, <3>2, <3>3, <3>4
  <2>6. ASSUME UNCHANGED loanVars
        PROVE  Uncovered' >= Uncovered
    BY <2>2, <2>3, <2>6 DEF loanVars, Uncovered
  <2>7. \/ \E caller \in Address, unit \in BaseUnits : SalaryPayment(caller, unit)
        \/ CreditNext
        \/ UNCHANGED loanVars
    BY <2>1, Zenon DEF DashboardNext, dashboardVars, Fund
  <2>8. ASSUME CreditNext
        PROVE  Uncovered' >= Uncovered
    <3>1. \/ \E interest \in Interests : InterestAccrues(interest)
          \/ \E _staff \in Address, desiredAmount \in Loans : BorrowGHOTokens(_staff, desiredAmount)
          \/ \E _staff \in Address, unit \in BaseUnits : PaybackLoan(_staff, unit)
          \/ UNCHANGED loanVars
      BY <2>8, Zenon DEF CreditNext, LoanNext
    <3>2. ASSUME NEW _staff \in Address, NEW unit \in BaseUnits, PaybackLoan(_staff, unit)
          PROVE  Uncovered' >= Uncovered
      BY <2>2, <3>2, PaybackLeaves
    <3> QED BY <2>4, <2>5, <2>6, <3>1, <3>2
  <2>9. Uncovered' >= Uncovered
    BY <2>1, <2>2, <2>6, <2>7, <2>8, PayrollLeaves
  <2> QED BY <2>1, <2>2, <2>9, PaybackLeaves, PayrollLeaves
<1>2. DashboardSpec => [][DashboardNext]_dashboardVars
  BY DEF DashboardSpec
<1> QED BY <1>1, <1>2, DashboardStaffTypes, MoneyInvariant, PTL DEF CompanyBearsTheRest

-----------------------------------------------------------------------------
(***************************************************************************)
(* The claims in the whole dashboard.  Loans and payrolls repay Aave from  *)
(* the aTokens of GHO; where those do not price the shares, only a         *)
(* purchase in another asset lowers what an account gets for its shares.   *)
(***************************************************************************)
LEMMA LoansKeepPricing ==
  ASSUME Gho # ShareAsset, VaultInv, NEW amount, PayGhoOwe(amount)
  PROVE  totalInvestment' = totalInvestment
<1>1. /\ aBalance \in [Asset -> Nat]
      /\ aBalance' = [aBalance EXCEPT ![Gho] = aBalance[Gho] - Lesser(amount, ghoDebt)]
  BY DEF PayGhoOwe, VaultInv, VaultTypeOK
<1>2. aBalance'[ShareAsset] = aBalance[ShareAsset]
  BY <1>1
<1> QED BY <1>2 DEF totalInvestment

LEMMA DashboardKeepsPrice ==
  ASSUME Gho # ShareAsset, VaultInv, [DashboardNext]_dashboardVars, ~ForeignPurchase, totalShares # 0
  PROVE  PriceKept
<1>1. totalInvestment \in Nat /\ totalShares \in Nat
  BY DEF VaultInv, VaultTypeOK, totalInvestment
<1>2. ASSUME totalInvestment' = totalInvestment, totalShares' = totalShares PROVE PriceKept
  <2>1. totalInvestment * totalShares \in Nat
    BY <1>1
  <2> QED BY <1>2, <2>1 DEF PriceKept
<1>3. ASSUME NEW caller \in Address, NEW unit \in BaseUnits, SalaryPayment(caller, unit)
      PROVE  PriceKept
  <2>1. totalShares' = totalShares /\ (UNCHANGED aBalance \/ PayGhoOwe(payloan(unit)))
    BY <1>3 DEF SalaryPayment
  <2>2. totalInvestment' = totalInvestment
    BY <2>1, LoansKeepPricing DEF totalInvestment
  <2> QED BY <1>2, <2>1, <2>2
<1>4. ASSUME NEW from \in Address, NEW amount \in Funds, Fund(from, amount)
      PROVE  PriceKept
  BY <1>2, <1>4 DEF Fund, totalInvestment
<1>5. CASE LoanNext
  <2>1. CASE \E interest \in Interests : InterestAccrues(interest)
    BY <1>2, <2>1 DEF InterestAccrues, vaultVars, totalInvestment
  <2>2. ASSUME NEW _staff \in Address, NEW desiredAmount \in Loans,
               BorrowGHOTokens(_staff, desiredAmount)
        PROVE  PriceKept
    BY <1>2, <2>2 DEF BorrowGHOTokens, totalInvestment
  <2>3. ASSUME NEW _staff \in Address, NEW unit \in BaseUnits, PaybackLoan(_staff, unit)
        PROVE  PriceKept
    BY <1>2, <2>3, LoansKeepPricing DEF PaybackLoan
  <2> QED BY <1>5, <2>1, <2>2, <2>3 DEF LoanNext
<1>6. CASE VaultNext
  BY <1>6, VaultKeepsPrice
<1>7. CASE UNCHANGED vaultVars
  BY <1>2, <1>7 DEF vaultVars, totalInvestment
<1> QED BY <1>3, <1>4, <1>5, <1>6, <1>7
     DEF DashboardNext, CreditNext, SavingsNext, dashboardVars

\* In the whole dashboard, whatever the assets and whoever repays loans from the
\* same aTokens, these cover the claims of all accounts together.
THEOREM ClaimsStayCovered == DashboardSpec => []ClaimsAreCovered
<1>1. MoneyInv => ClaimsAreCovered
  BY VaultIsSolvent DEF MoneyInv
<1> QED BY <1>1, MoneyInvariant, PTL

\* Whatever the assets, no payroll, loan, repayment, interest, withdrawal or
\* purchase of anyone lowers what an account gets for shares it keeps, except a
\* purchase that is paid in another asset than the one whose aToken prices them.
THEOREM OnlyForeignPurchasesDilute ==
  ASSUME Gho # ShareAsset
  PROVE  DashboardSpec =>
           [][~ForeignPurchase =>
                \A a \in Address : staffShares'[a] >= staffShares[a] => Claim(a)' >= Claim(a)
             ]_dashboardVars
<1>1. MoneyInv /\ MoneyInv' /\ [DashboardNext]_dashboardVars =>
        (~ForeignPurchase =>
           \A a \in Address : staffShares'[a] >= staffShares[a] => Claim(a)' >= Claim(a))
  BY DashboardKeepsPrice, ClaimKept DEF MoneyInv
<1>2. DashboardSpec => [][DashboardNext]_dashboardVars
  BY DEF DashboardSpec
<1> QED BY <1>1, <1>2, MoneyInvariant, PTL

=============================================================================
