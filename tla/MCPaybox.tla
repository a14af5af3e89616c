------------------------------ MODULE MCPaybox ------------------------------
(***************************************************************************)
(* Finite instances of Paybox for TLC.                                     *)
(***************************************************************************)
EXTENDS Paybox

=============================================================================
