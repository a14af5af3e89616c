------------------------------ MODULE MCVault ------------------------------
(***************************************************************************)
(* Finite instances of SharesVault for TLC.                                *)
(***************************************************************************)
EXTENDS SharesVault

MCAmount == {0}
MCWealth == [asset \in Asset |-> 2]
MCPayments == 0..3

=============================================================================
