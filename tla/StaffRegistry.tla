---------------------------- MODULE StaffRegistry ----------------------------
(***************************************************************************)
(* The staff registry of a PayBox dashboard (payboxDashboard.sol): the     *)
(* array allStaffs, from which removeStaff deletes by exchanging with the  *)
(* last entry, and the mappings staffLength (the index of an account in    *)
(* the array), Salary and staffExist that are kept beside it.              *)
(*                                                                         *)
(* A call is one transaction: it happens in one step, and a call that      *)
(* reverts leaves every slot as it was and is therefore no step at all.    *)
(* Indices keep the values they have in Solidity, so the entry at index i  *)
(* of the array is allStaffs[i + 1] here.                                  *)
(***************************************************************************)
EXTENDS Integers, SequencesExt

CONSTANTS
  Address,    \* the accounts that call the contract or are named in a call
  Owner,      \* the company's account, set by the constructor
  Amount,     \* the salaries the owner writes
  NoStaff,    \* address(0): nobody
  MaxStaff,   \* bound: the length of allStaffs
  MaxBatch    \* bound: the length of the arrays one addStaff call carries

ASSUME RegistryAssumption ==
  /\ Owner \in Address
  /\ Amount \subseteq Nat
  /\ NoStaff \notin Address
  /\ MaxStaff \in Nat
  /\ MaxBatch \in Nat

VARIABLES
  allStaffs,    \* address[] allStaffs
  staffLength,  \* mapping(address => uint256): index in allStaffs
  Salary,       \* mapping(address => uint256)
  staffExist,   \* mapping(address => bool)
  profile,      \* mapping(address => Profile): its salary field
  removed       \* the account of the last staffRemove event

registryVars == <<allStaffs, staffLength, Salary, staffExist, profile, removed>>

Listed(a) == a \in Range(allStaffs)

RegistryInit ==
  /\ allStaffs = <<>>
  /\ staffLength = [a \in Address |-> 0]
  /\ Salary = [a \in Address |-> 0]
  /\ staffExist = [a \in Address |-> FALSE]
  /\ profile = [a \in Address |-> 0]
  /\ removed = NoStaff

-----------------------------------------------------------------------------
(***************************************************************************)
(* addStaff.  The loop writes the mappings once per entry, so that the     *)
(* last entry of an account in the batch is the one that stays.            *)
(***************************************************************************)
LastIn(batch, a) == Max({i \in DOMAIN batch : batch[i] = a})

\* The mapping once value[i] is written for every account batch[i] in turn.
Written(map, batch, value) ==
  [a \in Address |-> IF a \in Range(batch) THEN value[LastIn(batch, a)] ELSE map[a]]

AddStaff(caller, staff, amount) ==
  /\ caller = Owner
  /\ Len(staff) = Len(amount)
  /\ Len(allStaffs) + Len(staff) <= MaxStaff
  /\ allStaffs' = allStaffs \o staff
  /\ staffLength' = Written(staffLength, staff,
                            [i \in DOMAIN staff |-> Len(allStaffs) + i - 1])
  /\ Salary' = Written(Salary, staff, amount)
  /\ profile' = Written(profile, staff, amount)
  /\ staffExist' = [a \in Address |-> a \in Range(staff) \/ staffExist[a]]
  /\ UNCHANGED removed

(***************************************************************************)
(* removeStaff.  Only the index is tested: an account that was never added *)
(* has index 0, which is below the length as soon as the array is not      *)
(* empty.  staffExist and the profile are left as they are.                *)
(***************************************************************************)
PoppedOnly(index) == Front(allStaffs)  \* mutant: no exchange

ExchangedAndPopped(index) == Front([allStaffs EXCEPT ![index + 1] = Last(allStaffs)])

\* Mutants: the entries written in the other order; the moved entry forgotten.
IndexDeletedFirst(staff, last, index) ==
  [staffLength EXCEPT ![staff] = 0, ![last] = index]

IndexDeletedOnly(staff, last, index) == [staffLength EXCEPT ![staff] = 0]

Reindexed(staff, last, index) == [staffLength EXCEPT ![last] = index, ![staff] = 0]

SalaryKept(staff) == Salary  \* mutant: the salary is not deleted

SalaryDeleted(staff) == [Salary EXCEPT ![staff] = 0]

RemoveStaff(caller, staff) ==
  LET index == staffLength[staff]
  IN  /\ caller = Owner
      /\ index < Len(allStaffs)
      /\ allStaffs' = ExchangedAndPopped(index)
      /\ staffLength' = Reindexed(staff, Last(allStaffs), index)
      /\ Salary' = SalaryDeleted(staff)
      /\ removed' = staff
      /\ UNCHANGED <<staffExist, profile>>

-----------------------------------------------------------------------------
Batches(S) == UNION {[1..n -> S] : n \in 0..MaxBatch}

AddStaffStep ==
  \E caller \in Address, staff \in Batches(Address), amount \in Batches(Amount) :
    AddStaff(caller, staff, amount)

RemoveStaffStep ==
  \E caller, staff \in Address : RemoveStaff(caller, staff)

RegistryNext == AddStaffStep \/ RemoveStaffStep

RegistrySpec == RegistryInit /\ [][RegistryNext]_registryVars

(***************************************************************************)
(* The owner who adds only accounts that are not listed, each once, and    *)
(* removes only accounts that are.  Nothing in the code asks for it.       *)
(***************************************************************************)
CarefulAdd ==
  \E staff \in Batches(Address), amount \in Batches(Amount) :
    /\ \A i \in DOMAIN staff : ~Listed(staff[i])
    /\ IsInjective(staff)
    /\ AddStaff(Owner, staff, amount)

CarefulRemove ==
  \E staff \in Address : Listed(staff) /\ RemoveStaff(Owner, staff)

CarefulNext == CarefulAdd \/ CarefulRemove

CarefulSpec == RegistryInit /\ [][CarefulNext]_registryVars

-----------------------------------------------------------------------------
(***************************************************************************)
(* Properties.                                                             *)
(***************************************************************************)

\* The type of the registry's slots.
RegistryTypeOK ==
  /\ allStaffs \in Seq(Address)
  /\ Len(allStaffs) <= MaxStaff
  /\ staffLength \in [Address -> Nat]
  /\ Salary \in [Address -> Amount \cup {0}]
  /\ staffExist \in [Address -> BOOLEAN]
  /\ profile \in [Address -> Amount \cup {0}]
  /\ removed \in Address \cup {NoStaff}

\* An index other than 0 is the index of its account, after any calls of any
\* arguments: the exchange in removeStaff never leaves a dangling index, so
\* removeStaff of an account with such an index removes that account.
IndexSound ==
  \A a \in Address : staffLength[a] # 0 =>
    /\ staffLength[a] < Len(allStaffs)
    /\ allStaffs[staffLength[a] + 1] = a

\* With a careful owner an account is listed once, at its index.
IndexExact ==
  \A i \in DOMAIN allStaffs : staffLength[allStaffs[i]] = i - 1

\* With a careful owner the salary that allMembers shows for a listed account
\* is the one the payroll uses, and an account that is not listed has none.
PayrollExact ==
  \A a \in Address : Salary[a] = IF Listed(a) THEN profile[a] ELSE 0

\* With a careful owner the registry implements Roster.
Payroll == [a \in Range(allStaffs) |-> Salary[a]]
Abstract == INSTANCE Roster WITH payroll <- Payroll
ImplementsRoster == Abstract!RosterSpec

=============================================================================
