------------------------------ MODULE DayBook ------------------------------
(***************************************************************************)
(* The rule by which the code of a PayBox dashboard credits attendance,    *)
(* without timestamps, flags and marks to clear: a book with a page for    *)
(* each day.  An account signs the page of the day at most once, and the   *)
(* first to sign it gets the credit of the day.  Attendance implements it, *)
(* whoever is hired or dismissed while a page is open.                     *)
(*                                                                         *)
(* The repository's README promises more, a day for everyone who attends:  *)
(* see EveryDayCounts in Attendance.                                       *)
(***************************************************************************)
EXTENDS Integers

CONSTANT Address   \* the accounts of the chain

VARIABLES day,       \* the number of the page that is open
          page,      \* the accounts that have signed it
          credits    \* the days for which an account has the credit

bookVars == <<day, page, credits>>

BookInit ==
  /\ day = 0
  /\ page = {}
  /\ credits = [a \in Address |-> 0]

TurnPage ==
  /\ day' = day + 1
  /\ page' = {}
  /\ UNCHANGED credits

Sign(a) ==
  /\ a \notin page
  /\ page' = page \cup {a}
  /\ credits' = IF page = {} THEN [credits EXCEPT ![a] = @ + 1] ELSE credits
  /\ UNCHANGED day

BookNext == TurnPage \/ \E a \in Address : Sign(a)

BookSpec == BookInit /\ [][BookNext]_bookVars

=============================================================================
