---------------------------- MODULE MCAttendance ----------------------------
(***************************************************************************)
(* Finite instances of Attendance for TLC.                                 *)
(***************************************************************************)
EXTENDS Attendance

MCAmount == {1}

\* Total is the sum of a mapping.
ASSUME \A f \in [{"a", "b", "c"} -> 0..3] : Total(f) = f["a"] + f["b"] + f["c"]

\* The owner has called addStaff once, and the list does not change any more.
Hired(staff) ==
  LET none == [a \in Address |-> 0]
      ones == [i \in DOMAIN staff |-> 1]
  IN  /\ allStaffs = staff
      /\ staffLength = Written(none, staff, [i \in DOMAIN staff |-> i - 1])
      /\ Salary = Written(none, staff, ones)
      /\ profile = Written(none, staff, ones)
      /\ staffExist = [a \in Address |-> a \in Range(staff)]
      /\ removed = NoStaff

HiredSpec ==
  /\ (\E staff \in Batches(Address) : Hired(staff)) /\ AttendanceInit
  /\ [][AttendanceNext /\ UNCHANGED registryVars]_officeVars

=============================================================================
