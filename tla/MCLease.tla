------------------------------ MODULE MCLease ------------------------------
(***************************************************************************)
(* The database lease with three processes.                                *)
(***************************************************************************)
EXTENDS LeaseLock
=============================================================================
