------------------------------- MODULE Roster -------------------------------
(***************************************************************************)
(* What the staff registry of a PayBox dashboard promises, without arrays  *)
(* and indices: a payroll is a partial function from the staff to their    *)
(* salaries.  Hiring extends it, dismissing a member of staff takes exactly *)
(* that member out of it, and the staffRemove event names the member that  *)
(* left.  StaffRegistry implements it when the owner calls addStaff and    *)
(* removeStaff with care (see CarefulSpec there).                          *)
(***************************************************************************)
EXTENDS Integers

CONSTANTS Address,   \* the accounts of the chain
          Amount,    \* the salaries
          NoStaff    \* the value of removed before the first staffRemove event

VARIABLES payroll,   \* the salary of every member of staff
          removed    \* the member named by the last staffRemove event

rosterVars == <<payroll, removed>>

Staff == DOMAIN payroll

RosterInit ==
  /\ payroll = [a \in {} |-> 0]
  /\ removed = NoStaff

\* The company takes on the accounts of S, none of them staff already.
Hire(S, salary) ==
  /\ S \cap Staff = {}
  /\ payroll' = [a \in Staff \cup S |-> IF a \in S THEN salary[a] ELSE payroll[a]]
  /\ UNCHANGED removed

\* The company lets the member a go.
Dismiss(a) ==
  /\ a \in Staff
  /\ payroll' = [b \in Staff \ {a} |-> payroll[b]]
  /\ removed' = a

RosterNext ==
  \/ \E S \in SUBSET Address : \E salary \in [S -> Amount] : Hire(S, salary)
  \/ \E a \in Address : Dismiss(a)

RosterSpec == RosterInit /\ [][RosterNext]_rosterVars

=============================================================================
