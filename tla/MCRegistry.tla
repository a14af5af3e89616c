----------------------------- MODULE MCRegistry -----------------------------
(***************************************************************************)
(* Finite instances of StaffRegistry for TLC.                              *)
(***************************************************************************)
EXTENDS StaffRegistry

MCAmount == 0..1

=============================================================================
