------------------------------- MODULE Paybox -------------------------------
(***************************************************************************)
(* The factory contract (paybox.sol): createAccount deploys a dashboard    *)
(* for its caller and schedules its payroll, and payStaff, which a         *)
(* time-based trigger calls, goes through the schedule.  Of a dashboard    *)
(* only its owner matters here, and how often its salaryPayment succeeded: *)
(* the module Payroll says when it does for the owner.                     *)
(*                                                                         *)
(* Dashboards are numbered from 1 as they are deployed.                    *)
(***************************************************************************)
EXTENDS Integers, SequencesExt

CONSTANTS
  User,        \* the accounts that call the factory
  Factory,     \* the factory's own account
  NoAccount,   \* the address 0
  Daily,       \* Interval.daily, as a time: 1 hours
  Biweekly,    \* 14 days
  Monthly,     \* 30 days
  MaxAccounts, \* bound: the number of dashboards
  MaxPays,     \* bound: the payrolls an owner makes of a dashboard
  LastTime     \* bound: the last block.timestamp

ASSUME PayboxAssumption ==
  /\ Factory \notin User
  /\ NoAccount \notin Nat
  /\ {Daily, Biweekly, Monthly} \subseteq Nat \ {0}
  /\ {MaxAccounts, MaxPays, LastTime} \subseteq Nat

VARIABLES
  time,          \* block.timestamp
  dashOwner,     \* the owner of every dashboard, a sequence
  myAccount,     \* mapping(address => address)
  userExist,     \* mapping(address => bool)
  arrayAddress,  \* AddressPayment[]
  payrolls       \* the payrolls every dashboard has made, a sequence

payboxVars == <<time, dashOwner, myAccount, userExist, arrayAddress, payrolls>>

PayboxInit ==
  /\ time = 0
  /\ dashOwner = <<>>
  /\ myAccount = [u \in User |-> NoAccount]
  /\ userExist = [u \in User |-> FALSE]
  /\ arrayAddress = <<>>
  /\ payrolls = <<>>

-----------------------------------------------------------------------------
FutureTime(interval) == time + interval

\* Mutant: the schedule has the last dashboard only.
ScheduledAlone(child, interval) ==
  <<[myAccout |-> child, FutureTime |-> FutureTime(interval)]>>

Scheduled(child, interval) ==
  Append(arrayAddress, [myAccout |-> child, FutureTime |-> FutureTime(interval)])

\* createAccount requires that userExist of the caller is not set, and leaves
\* it as it is.
CreateAccount(caller, interval) ==
  LET child == Len(dashOwner) + 1
  IN  /\ ~userExist[caller]
      /\ Len(dashOwner) < MaxAccounts
      /\ dashOwner' = Append(dashOwner, caller)
      /\ payrolls' = Append(payrolls, 0)
      /\ myAccount' = [myAccount EXCEPT ![caller] = child]
      /\ arrayAddress' = Scheduled(child, interval)
      /\ UNCHANGED <<time, userExist>>

showMyAcct(owner) == myAccount[owner]

\* Mutant: salaryPayment without _onlyOwner.
AnyonePaysAll(caller, D) ==
  payrolls' = [d \in DOMAIN payrolls |-> payrolls[d] + IF d \in D THEN 1 ELSE 0]

\* The call of salaryPayment that the account caller makes of the dashboards D.
PaysAll(caller, D) ==
  /\ \A d \in D : dashOwner[d] = caller
  /\ payrolls' = [d \in DOMAIN payrolls |-> payrolls[d] + IF d \in D THEN 1 ELSE 0]

\* payStaff stops at the first entry whose time is over, and calls
\* salaryPayment as the factory for the entries before it.  The new time goes
\* into a copy in memory, so that the schedule stays as it is.
PayStaff ==
  LET Reached(i) == \A j \in 1 .. i : arrayAddress[j].FutureTime >= time
      due == {i \in DOMAIN arrayAddress : Reached(i)}
  IN  /\ PaysAll(Factory, {arrayAddress[i].myAccout : i \in due})
      /\ UNCHANGED <<time, dashOwner, myAccount, userExist, arrayAddress>>

\* An owner calls salaryPayment of a dashboard.
OwnerPays(caller, d) ==
  /\ payrolls[d] < MaxPays
  /\ PaysAll(caller, {d})
  /\ UNCHANGED <<time, dashOwner, myAccount, userExist, arrayAddress>>

Later ==
  /\ time < LastTime
  /\ time' = time + 1
  /\ UNCHANGED <<dashOwner, myAccount, userExist, arrayAddress, payrolls>>

PayboxNext ==
  \/ Later
  \/ PayStaff
  \/ \E caller \in User :
       \/ \E interval \in {Daily, Biweekly, Monthly} : CreateAccount(caller, interval)
       \/ \E d \in DOMAIN dashOwner : OwnerPays(caller, d)

PayboxSpec == PayboxInit /\ [][PayboxNext]_payboxVars

\* Blocks go on and the trigger calls payStaff again and again; owners do
\* nothing of themselves.
TriggerSpec == PayboxSpec /\ WF_payboxVars(Later) /\ WF_payboxVars(PayStaff)

-----------------------------------------------------------------------------
(***************************************************************************)
(* Properties.                                                             *)
(***************************************************************************)
\* showMyAcct gives an owner the dashboard it created last, and none before;
\* the schedule has that dashboard, and every other, exactly once.
AccountsAreScheduled ==
  /\ \A u \in User :
       LET mine == {d \in DOMAIN dashOwner : dashOwner[d] = u}
       IN  showMyAcct(u) = IF mine = {} THEN NoAccount ELSE Max(mine)
  /\ \A d \in DOMAIN dashOwner :
       Cardinality({i \in DOMAIN arrayAddress : arrayAddress[i].myAccout = d}) = 1

\* A call of payStaff that does not revert changes nothing at any dashboard
\* nor in the schedule: it either stops at the first entry or reverts.
PayStaffIsIdle == [][PayStaff => UNCHANGED payboxVars]_payboxVars

\* The salaries are paid by a "time-based trigger" (README.md:25): the company
\* that was scheduled is paid some time.
TriggerPays ==
  \A n \in 1 .. MaxAccounts : (Len(dashOwner) >= n) ~> (Len(payrolls) >= n /\ payrolls[n] > 0)

=============================================================================
