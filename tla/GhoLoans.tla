------------------------------ MODULE GhoLoans ------------------------------
(***************************************************************************)
(* The GHO loans of a PayBox dashboard (payboxDashboard.sol).  An account  *)
(* with shares has the dashboard borrow GHO from Aave for it; staffLoan    *)
(* and borrowActive record what it owes the dashboard, and Aave records    *)
(* what the dashboard owes.                                                *)
(*                                                                         *)
(* Aave is external.  It keeps the dashboard's debt in GHO and tells it in *)
(* a base currency, in which a unit is worth many of the smallest units of *)
(* GHO; the debt earns interest.  borrow and repayWithATokens refuse an    *)
(* amount of 0.  repayWithATokens names the reserve of GHO, so it burns    *)
(* the dashboard's own aTokens of GHO, and no more than the debt; nobody   *)
(* else repays for the dashboard and it is not liquidated.  What Aave      *)
(* demands of the collateral makes a borrow or a withdrawal revert, which  *)
(* is the absence of a step.                                               *)
(***************************************************************************)
EXTENDS SharesVault

CONSTANTS
  Gho,         \* the GHO token
  Loans,       \* the amounts the accounts ask for
  Interests,   \* the amounts by which the debt grows at once
  BaseUnits,   \* the units of GHO in a unit of the base currency, by its price
  MaxDebt      \* bound: the debt of the dashboard

ASSUME LoanAssumption ==
  /\ Gho \in Asset
  /\ Loans \subseteq Nat
  /\ Interests \subseteq Nat
  /\ BaseUnits \subseteq Nat \ {0}
  /\ MaxDebt \in Nat

VARIABLES
  staffLoan,     \* mapping(address => uint256)
  borrowActive,  \* mapping(address => bool)
  ghoDebt        \* what the dashboard owes Aave, in GHO

loanVars == <<staffLoan, borrowActive, ghoDebt>>

LoanInit ==
  /\ staffLoan = [a \in Address |-> 0]
  /\ borrowActive = [a \in Address |-> FALSE]
  /\ ghoDebt = 0

-----------------------------------------------------------------------------
(***************************************************************************)
(* Aave's side of the debt.                                                *)
(***************************************************************************)
InterestAccrues(interest) ==
  /\ ghoDebt > 0
  /\ ghoDebt + interest <= MaxDebt
  /\ ghoDebt' = ghoDebt + interest
  /\ UNCHANGED <<vaultVars, staffLoan, borrowActive>>

\* getUserAccountData: the debt in the base currency.
totalDebtETH(unit) == ghoDebt \div unit

Lesser(m, n) == IF m <= n THEN m ELSE n

\* Mutant: nothing is repaid.
NothingPaid(amount) == UNCHANGED <<aBalance, ghoDebt>>

\* payGhoOwe: Aave burns aTokens of GHO for the amount, or for the whole debt.
PayGhoOwe(amount) ==
  LET paid == Lesser(amount, ghoDebt)
  IN  /\ paid > 0
      /\ aBalance[Gho] >= paid
      /\ aBalance' = [aBalance EXCEPT ![Gho] = @ - paid]
      /\ ghoDebt' = ghoDebt - paid

-----------------------------------------------------------------------------
(***************************************************************************)
(* The calls, which anyone may make for any account.                       *)
(***************************************************************************)
allowedTokens(_staff) == (staffShares[_staff] \div 100) * 20

BorrowGHOTokens(_staff, desiredAmount) ==
  /\ staffShares[_staff] # 0
  /\ desiredAmount <= allowedTokens(_staff)
  /\ desiredAmount > 0
  /\ ghoDebt + desiredAmount <= MaxDebt
  /\ ghoDebt' = ghoDebt + desiredAmount
  /\ staffLoan' = [staffLoan EXCEPT ![_staff] = @ + desiredAmount]
  /\ wallet' = [wallet EXCEPT ![Gho][_staff] = @ + desiredAmount]
  /\ borrowActive' = [borrowActive EXCEPT ![_staff] = TRUE]
  /\ UNCHANGED <<aBalance, gained, staffShares, totalShares>>

\* Mutant: the debt of everyone.
WholeDebt(_staff, unit) == totalDebtETH(unit) * unit

\* The amount to pay back; the division is defined when the debt is not 0.
ghoPayback(_staff, unit) ==
  (staffLoan[_staff] \div totalDebtETH(unit)) * totalDebtETH(unit)

\* Mutants: the loan is kept; the debt of the dashboard is deducted from it.
LoanKept(_staff) == staffLoan

LoanCleared(_staff) == [staffLoan EXCEPT ![_staff] = 0]

PaybackLoan(_staff, unit) ==
  /\ totalDebtETH(unit) # 0
  /\ PayGhoOwe(ghoPayback(_staff, unit))
  /\ borrowActive' = [borrowActive EXCEPT ![_staff] = FALSE]
  /\ staffLoan' = LoanCleared(_staff)
  /\ UNCHANGED <<wallet, gained, staffShares, totalShares>>

LoanNext ==
  \/ \E interest \in Interests : InterestAccrues(interest)
  \/ \E _staff \in Address :
       \/ \E desiredAmount \in Loans : BorrowGHOTokens(_staff, desiredAmount)
       \/ \E unit \in BaseUnits : PaybackLoan(_staff, unit)

-----------------------------------------------------------------------------
(***************************************************************************)
(* The loans beside the vault and the registry.                            *)
(***************************************************************************)
creditVars == <<registryVars, vaultVars, loanVars>>

CreditInit == SavingsInit /\ LoanInit

CreditNext ==
  \/ LoanNext /\ UNCHANGED registryVars
  \/ SavingsNext /\ UNCHANGED loanVars

CreditSpec == CreditInit /\ [][CreditNext]_creditVars

-----------------------------------------------------------------------------
(***************************************************************************)
(* Properties.                                                             *)
(***************************************************************************)
LoanTypeOK ==
  /\ staffLoan \in [Address -> Nat]
  /\ borrowActive \in [Address -> BOOLEAN]
  /\ ghoDebt \in Nat

\* salaryPayment deducts from those whose borrowActive is set: it is set for
\* exactly the accounts that owe something.
ActiveIsOwing == \A a \in Address : borrowActive[a] <=> staffLoan[a] > 0

\* The dashboard owes Aave at least what its staff owe it, whatever the
\* rounding of ghoPayback leaves unpaid.
LoansAreOwedToAave == Total(staffLoan) <= ghoDebt

=============================================================================
