----------------------------- MODULE Attendance -----------------------------
(***************************************************************************)
(* The attendance of a PayBox dashboard (payboxDashboard.sol): the owner   *)
(* opens a day with openAttendance, which clears the mark of every listed  *)
(* account, and an account marks itself with markAttendance.  Only the     *)
(* first account to mark after an opening is credited in                   *)
(* attendanceCounter.                                                      *)
(*                                                                         *)
(* Time is block.timestamp, which never decreases and moves on its own.    *)
(* Two history variables say what happened: opened counts the calls of     *)
(* openAttendance that did not revert, and numbers the days from 0, and    *)
(* attended[a] holds the days on which a called markAttendance.            *)
(***************************************************************************)
EXTENDS StaffRegistry, Sums

CONSTANTS
  Interval,    \* attendanceResetInterval
  Deployment,  \* block.timestamp when the dashboard is deployed
  Horizon      \* bound: the last block.timestamp

ASSUME AttendanceAssumption ==
  /\ Interval \in Nat \ {0}
  /\ Deployment \in Nat
  /\ Horizon \in Nat
  /\ IsFiniteSet(Address)

VARIABLES
  now,                 \* block.timestamp
  lastResetTimestamp,  \* uint256
  dailyAttendance,     \* bool: someone has marked since the last opening
  attendanceMarked,    \* mapping(address => bool)
  attendanceCounter,   \* mapping(address => uint256)
  opened,              \* history: the number of openings so far
  attended             \* history: the days on which an account marked

attendanceVars == <<now, lastResetTimestamp, dailyAttendance, attendanceMarked,
                    attendanceCounter, opened, attended>>

officeVars == <<registryVars, attendanceVars>>

AttendanceInit ==
  /\ now = Deployment
  /\ lastResetTimestamp = 0
  /\ dailyAttendance = FALSE
  /\ attendanceMarked = [a \in Address |-> FALSE]
  /\ attendanceCounter = [a \in Address |-> 0]
  /\ opened = 0
  /\ attended = [a \in Address |-> {}]

-----------------------------------------------------------------------------
NewDay == now - lastResetTimestamp >= Interval

OpenAttendance(caller) ==
  /\ caller = Owner
  /\ NewDay
  /\ dailyAttendance' = FALSE
  /\ lastResetTimestamp' = now
  /\ attendanceMarked' = [a \in Address |-> ~Listed(a) /\ attendanceMarked[a]]
  /\ opened' = opened + 1
  /\ UNCHANGED <<now, attendanceCounter, attended>>

\* Mutant: only the first branch of markAttendance sets the mark.
FirstMarked(caller) ==
  IF dailyAttendance THEN attendanceMarked ELSE [attendanceMarked EXCEPT ![caller] = TRUE]

Marked(caller) == [attendanceMarked EXCEPT ![caller] = TRUE]

\* Mutants: every mark counts; the owner gets the credit.
EveryoneCredited(caller) == [attendanceCounter EXCEPT ![caller] = @ + 1]

OwnerCredited(caller) ==
  IF dailyAttendance THEN attendanceCounter ELSE [attendanceCounter EXCEPT ![Owner] = @ + 1]

\* The first account to mark since the last opening is the only one to count.
Credited(caller) ==
  IF dailyAttendance THEN attendanceCounter ELSE [attendanceCounter EXCEPT ![caller] = @ + 1]

\* Any account may call it: there is no _onlyStaff.
MarkAttendance(caller) ==
  /\ ~attendanceMarked[caller]
  /\ dailyAttendance' = TRUE
  /\ attendanceMarked' = Marked(caller)
  /\ attendanceCounter' = Credited(caller)
  /\ attended' = [attended EXCEPT ![caller] = @ \cup {opened}]
  /\ UNCHANGED <<now, lastResetTimestamp, opened>>

\* A later block.
Tick ==
  /\ now < Horizon
  /\ now' = now + 1
  /\ UNCHANGED <<lastResetTimestamp, dailyAttendance, attendanceMarked,
                 attendanceCounter, opened, attended>>

AttendanceNext ==
  \/ Tick
  \/ \E caller \in Address : OpenAttendance(caller) \/ MarkAttendance(caller)

-----------------------------------------------------------------------------
(***************************************************************************)
(* The attendance beside the registry, whose list openAttendance reads.    *)
(***************************************************************************)
OfficeInit == RegistryInit /\ AttendanceInit

OfficeNext ==
  \/ AttendanceNext /\ UNCHANGED registryVars
  \/ RegistryNext /\ UNCHANGED attendanceVars

OfficeSpec == OfficeInit /\ [][OfficeNext]_officeVars

-----------------------------------------------------------------------------
(***************************************************************************)
(* Properties.                                                             *)
(***************************************************************************)
AttendanceTypeOK ==
  /\ now \in Nat
  /\ lastResetTimestamp \in Nat
  /\ dailyAttendance \in BOOLEAN
  /\ attendanceMarked \in [Address -> BOOLEAN]
  /\ attendanceCounter \in [Address -> Nat]
  /\ opened \in Nat
  /\ attended \in [Address -> SUBSET (0 .. opened)]

\* The types of the registry and of the attendance beside it.
OfficeTypeOK == RegistryTypeOK /\ AttendanceTypeOK

DaysAttended == UNION {attended[a] : a \in Address}

\* The attendance "counts the number of days each staff member has attended"
\* (README.md:51).  The code counts a day for one account only, the first to
\* mark.
EveryDayCounts ==
  \A a \in Address : Listed(a) => attendanceCounter[a] = Cardinality(attended[a])

\* What the code counts instead: each day on which anyone marked is credited to
\* exactly one account, in any order of openings, marks, hirings and removals.
\* dailyAttendance, which openAttendance resets and markAttendance sets, never
\* credits a day twice nor loses one.
OneCreditPerDay == Total(attendanceCounter) = Cardinality(DaysAttended)

\* An account marks at most once between two openings ("once per day",
\* README.md:242), even if it is removed and added again in between.
OncePerDay ==
  [][\A a \in Address : MarkAttendance(a) => opened \notin attended[a]]_officeVars

\* An account is credited only for days on which it marked.
CreditsAreEarned ==
  \A a \in Address : attendanceCounter[a] <= Cardinality(attended[a])

\* The marks that openAttendance clears and dailyAttendance, in any order of
\* openings, marks, hirings and removals, implement DayBook, which states the
\* rule of the code and not that of README.md:51: the page is who marked since
\* the last opening, and the first of them alone has the credit.
MarkedToday == {a \in Address : opened \in attended[a]}
Book == INSTANCE DayBook WITH day <- opened, page <- MarkedToday, credits <- attendanceCounter
ImplementsDayBook == Book!BookSpec

\* The subtraction of openAttendance never underflows, and no sequence of
\* calls opens days faster than one per interval.
DaysApart == opened * Interval <= lastResetTimestamp /\ lastResetTimestamp <= now

=============================================================================
