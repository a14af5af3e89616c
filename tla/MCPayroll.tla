----------------------------- MODULE MCPayroll -----------------------------
(***************************************************************************)
(* Finite instances of Payroll for TLC.  The company has called addStaff   *)
(* once, with any lists, and the list does not change any more; all the    *)
(* other calls are made in any order.                                      *)
(***************************************************************************)
EXTENDS Payroll

MCAmount == {0, 30}
MCWealth == [asset \in Asset |-> IF asset = Gho THEN 0 ELSE 160]

Staffed(staff, amount) ==
  LET none == [a \in Address |-> 0]
  IN  /\ allStaffs = staff
      /\ staffLength = Written(none, staff, [i \in DOMAIN staff |-> i - 1])
      /\ Salary = Written(none, staff, amount)
      /\ profile = Written(none, staff, amount)
      /\ staffExist = [a \in Address |-> a \in Range(staff)]
      /\ removed = NoStaff

PaydayInit ==
  /\ \E staff \in Batches(Address), amount \in Batches(Amount) :
       Len(staff) = Len(amount) /\ Staffed(staff, amount)
  /\ AttendanceInit
  /\ VaultInit
  /\ LoanInit
  /\ PayInit

PaydayNext ==
  \/ \E caller \in Address, unit \in BaseUnits : SalaryPayment(caller, unit)
  \/ \E from \in Address, amount \in Funds : Fund(from, amount)
  \/ /\ \/ \E a \in Address, amount \in Payments : BuyShares(a, a, amount, ShareAsset)
        \/ \E gain \in Gains : ATokensArrive(Gho, gain)
     /\ UNCHANGED <<registryVars, attendanceVars, loanVars, payVars>>
  \/ LoanNext /\ UNCHANGED <<registryVars, attendanceVars, payVars>>
  \/ AttendanceNext /\ UNCHANGED <<registryVars, vaultVars, loanVars, payVars>>

PaydaySpec == PaydayInit /\ [][PaydayNext]_dashboardVars

=============================================================================
